---------------------------- MODULE Spec2Model ----------------------------
(***************************************************************************)
(* A model of the FAGA rendering pipeline: the markup parser (html crate), *)
(* the style-sheet parser and style resolver (src/parser), and the block   *)
(* layout engine (layout crate).                                           *)
(*                                                                         *)
(* Text is a sequence of atoms.  An atom is one character ("<", "{", " ")  *)
(* or one maximal run of letters/digits that the code never looks inside   *)
(* ("margin", "red", "px", "16").  Numbers are fixed point, Scale = 1.00.  *)
(***************************************************************************)
EXTENDS Integers, Sequences, FiniteSets, TLC

VARIABLES
    \* ---- html::Parser (src/html/src/lib.rs)
    source,     \* the lexemes the input text was written from (not read by the parser)
    input,      \* Parser.input
    pos,        \* Parser.pos: number of characters consumed
    open,       \* the recursion stack of parse_element / parse_nodes
    hpc,        \* where the parser is: "nodes", "attrs", "ret", "done", "panic"
    dom,        \* the tree html::parse returned, NoNode before
    \* ---- CssParser (src/src/parser/css_parser.rs)
    css_source, \* what the style-sheet text was written from (not read by the parser)
    css,        \* the text handed to CssParser::parse
    stylesheet, \* Stylesheet.rules as returned
    cpc,        \* "start", "done"
    \* ---- layout crate (src/layout/src/lib.rs)
    styled,     \* the css::StyledNode tree handed to layout_tree
    containing, \* the containing block handed to layout_tree
    layout,     \* the LayoutBox tree returned
    lpc,        \* "style", "start", "done", "painted"
    \* ---- HtmlRenderer (src/src/parser/renderer.rs)
    default_stylesheet, \* the rules of the default style sheet, each with its iteration order
    page_stylesheets,   \* the registered page style sheets, in registration order
    document,           \* the root node of the Document rendered
    rendered,           \* the RenderNode tree the last render returned, <<>> before it
    previous,           \* the tree the render before it returned on the same inputs
    \* ---- selector matching (renderer.rs, css_parser.rs)
    sel_case,   \* a selector text and the element it is matched against
    sel_result, \* what the two matchers returned, <<>> before
    \* ---- the pipeline of the core crate (src/core/src/lib.rs) around the layout
    dom_root,    \* the html::Node tree handed to css::style_tree
    core_stylesheet, \* the css::Stylesheet handed to css::style_tree
    display_list, \* the list paint::build_display_list returned, <<>> before
    \* ---- flatten_render_tree (src/src/parser/renderer.rs)
    styled_content, \* <<the Vec<StyledText> flatten_render_tree returned>>, <<>> before
    \* ---- the browser window (main.rs)
    tabs,               \* FagaBrowser.tabs, the Tab records in bar order
    active_tab,         \* FagaBrowser.active_tab, a 0-based index
    next_tab_id,        \* FagaBrowser.next_tab_id
    url_input,          \* FagaBrowser.url_input
    dragging_tab,       \* FagaBrowser.dragging_tab: <<>> or <<DragState>>
    loads,              \* the commands load_page returned, in the order issued
    window              \* "idle", "open", "closed", or "panic" after an abort in update

hvars == <<source, input, pos, open, hpc, dom>>
cvars == <<css_source, css, stylesheet, cpc>>
lvars == <<styled, containing, layout, lpc>>

rvars == <<default_stylesheet, page_stylesheets, document, rendered, previous>>

mvars == <<sel_case, sel_result>>

pvars == <<dom_root, core_stylesheet, display_list>>

fvars == <<styled_content>>

bvars == <<tabs, active_tab, next_tab_id, url_input, dragging_tab, loads, window>>

vars == <<hvars, cvars, lvars, rvars, mvars, pvars, fvars, bvars>>

\* the variables the html parser does not touch
hother == <<cvars, lvars, rvars, mvars, pvars, fvars, bvars>>
\* the variables the style-sheet parser does not touch
cother == <<hvars, lvars, rvars, mvars, pvars, fvars, bvars>>
\* the variables the layout engine does not touch
lother == <<hvars, cvars, rvars, mvars, pvars, fvars, bvars>>
\* the variables the renderer does not touch
rother == <<hvars, cvars, lvars, mvars, pvars, fvars, bvars>>
\* the variables selector matching does not touch
mother == <<hvars, cvars, lvars, rvars, pvars, fvars, bvars>>
\* the variables style_tree and build_display_list do not touch
pother == <<hvars, cvars, rvars, mvars, fvars, bvars>>
\* the variables flatten_render_tree does not touch
fother == <<hvars, cvars, lvars, rvars, mvars, pvars, bvars>>
\* the variables the browser window does not touch
bother == <<hvars, cvars, lvars, rvars, mvars, pvars, fvars>>

-----------------------------------------------------------------------------
(* Generic helpers *)

RECURSIVE Flatten(_)
Flatten(ss) == IF ss = <<>> THEN <<>> ELSE Head(ss) \o Flatten(Tail(ss))

RECURSIVE SumSeq(_)
SumSeq(s) == IF s = <<>> THEN 0 ELSE Head(s) + SumSeq(Tail(s))

SeqsUpTo(S, n) == UNION {[1..k -> S] : k \in 0..n}

Range(s) == {s[i] : i \in DOMAIN s}

-----------------------------------------------------------------------------
(* Each specification starts the other components idle. *)

HtmlIdle ==
    /\ source = <<>> /\ input = <<>> /\ pos = 0 /\ open = <<>> /\ hpc = "idle"
    /\ dom = [kind |-> "None"]

CssIdle ==
    /\ css_source = <<>> /\ css = <<>> /\ stylesheet = <<>> /\ cpc = "idle"

LayoutIdle ==
    /\ styled = <<>> /\ containing = <<>> /\ layout = <<>> /\ lpc = "idle"

RendererIdle ==
    /\ default_stylesheet = <<>> /\ page_stylesheets = <<>> /\ document = <<>>
    /\ rendered = <<>> /\ previous = <<>>

SelectorIdle == sel_case = <<>> /\ sel_result = <<>>

PipelineIdle == dom_root = <<>> /\ core_stylesheet = <<>> /\ display_list = <<>>

FlattenIdle == styled_content = <<>>

BrowserIdle == 
    /\ tabs = <<>> /\ active_tab = 0 /\ next_tab_id = 0 /\ url_input = ""
    /\ dragging_tab = <<>> /\ loads = <<>> /\ window = "idle"

-----------------------------------------------------------------------------
(* ======================= html crate: DOM and Parser ==================== *)

NoNode == [kind |-> "None", tag_name |-> <<>>, attributes |-> {}, data |-> <<>>, children |-> <<>>]

\* html::text
text(data) ==
    [kind |-> "Text", tag_name |-> <<>>, attributes |-> {}, data |-> data, children |-> <<>>]

\* html::elem
elem(name, attrs, children) ==
    [kind |-> "Element", tag_name |-> name, attributes |-> attrs, data |-> <<>>, children |-> children]

\* the character classes the parser tests
TagNameChars == {"a", "b", "c", "t", "v"}
WhitespaceChars == {" "}
QuoteChars == {"'", "\""}
AllChars == TagNameChars \cup WhitespaceChars \cup QuoteChars \cup {"<", ">", "/", "="}

\* Parser::eof
eof(p) == p >= Len(input)

\* Parser::next_char: the default character at end of input
next_char(p) == IF p < Len(input) THEN input[p + 1] ELSE "NUL"

\* Parser::starts_with("</")
starts_with_close(p) == p + 2 <= Len(input) /\ input[p + 1] = "<" /\ input[p + 2] = "/"

\* Parser::consume_while: the position reached; every iteration consumes one character
RECURSIVE consume_while(_, _)
consume_while(p, test) ==
    IF ~eof(p) /\ next_char(p) \in test THEN consume_while(p + 1, test) ELSE p

consumed(p, q) == SubSeq(input, p + 1, q)

\* Parser::consume_whitespace
consume_whitespace(p) == consume_while(p, WhitespaceChars)

\* Parser::parse_tag_name
parse_tag_name(p) == consume_while(p, TagNameChars)

\* HashMap::insert on the attribute map
AttrInsert(attrs, name, value) ==
    {a \in attrs : a[1] # name} \cup {<<name, value>>}

Frame(name, attrs, nodes) == [tag_name |-> name, attributes |-> attrs, nodes |-> nodes]

Top == open[Len(open)]

\* mutant: the node put before the ones already parsed
PushNodeFront(stack, n) ==
    [stack EXCEPT ![Len(stack)].nodes = <<n>> \o @]

\* parse_nodes: nodes.push(self.parse_node())
PushNode(stack, n) ==
    [stack EXCEPT ![Len(stack)].nodes = Append(@, n)]

\* the lexemes inputs are written from
Lexemes == <<
    [kind |-> "open",  name |-> <<"a">>, chars |-> <<"<", "a", ">">>],
    [kind |-> "close", name |-> <<"a">>, chars |-> <<"<", "/", "a", ">">>],
    [kind |-> "open",  name |-> <<"b">>, chars |-> <<"<", "b", ">">>],
    [kind |-> "close", name |-> <<"b">>, chars |-> <<"<", "/", "b", ">">>],
    [kind |-> "text",  name |-> <<>>,    chars |-> <<"t">>],
    [kind |-> "ws",    name |-> <<>>,    chars |-> <<" ">>],
    [kind |-> "open",  name |-> <<"a">>, chars |-> <<"<", "a", " ", "c", "=", "'", "v", "'", ">">>],
    [kind |-> "bad",   name |-> <<>>,    chars |-> <<"<", "a", " ", "c", "=", "v", ">">>],
    [kind |-> "bad",   name |-> <<>>,    chars |-> <<"<", "a", " ", "c", "=", "'", "v", ">">>] >>

MaxLexemes == 4

HtmlInit ==
    /\ source \in SeqsUpTo(DOMAIN Lexemes, MaxLexemes)
    /\ input = Flatten([i \in DOMAIN source |-> Lexemes[source[i]].chars])
    /\ pos = 0
    /\ open = <<Frame(<<>>, {}, <<>>)>>
    /\ hpc = "nodes"
    /\ dom = NoNode
    /\ CssIdle /\ LayoutIdle /\ RendererIdle /\ SelectorIdle /\ PipelineIdle /\ FlattenIdle /\ BrowserIdle

\* parse_nodes, the loop exits: end of input, or a closing tag starts
ParseNodesBreak ==
    /\ hpc = "nodes"
    /\ LET p == IF eof(pos) THEN pos ELSE consume_whitespace(pos) IN
        /\ eof(p) \/ starts_with_close(p)
        /\ pos' = p
        /\ hpc' = "ret"
        /\ UNCHANGED <<hother, source, input, open, dom>>

\* mutant: parse_text that consumes nothing
parse_text_empty(p) == p

\* Parser::parse_text: the position after the text
parse_text(p) == consume_while(p, AllChars \ {"<"})

\* parse_nodes -> parse_node -> parse_text
ParseText ==
    /\ hpc = "nodes"
    /\ ~eof(pos)
    /\ LET p == consume_whitespace(pos)
           q == parse_text(p) IN
        /\ ~eof(p) /\ ~starts_with_close(p)
        /\ next_char(p) # "<"
        /\ pos' = q
        /\ open' = PushNode(open, text(consumed(p, q)))
        /\ UNCHANGED <<hother, source, input, hpc, dom>>

\* parse_nodes -> parse_node -> parse_element up to the call of parse_attributes
\* (and its leading consume_whitespace)
ParseElementOpen ==
    /\ hpc = "nodes"
    /\ ~eof(pos)
    /\ LET p == consume_whitespace(pos)
           q == parse_tag_name(p + 1) IN
        /\ ~eof(p) /\ ~starts_with_close(p)
        /\ next_char(p) = "<"
        /\ pos' = consume_whitespace(q)
        /\ open' = Append(open, Frame(consumed(p + 1, q), {}, <<>>))
        /\ hpc' = "attrs"
        /\ UNCHANGED <<hother, source, input, dom>>

\* parse_attr and parse_attr_value from position p: the position after the closing
\* quote, or -1 when an assert! or the unwrap in consume_char fails
AttrEnd(p) ==
    LET n == parse_tag_name(p)
        v == consume_while(n + 2, AllChars \ {next_char(n + 1)}) IN
    IF eof(n) \/ next_char(n) # "=" THEN -1
    ELSE IF eof(n + 1) \/ next_char(n + 1) \notin QuoteChars THEN -1
    ELSE IF eof(v) THEN -1
    ELSE v + 1

\* parse_attributes, one iteration that parses an attribute
ParseAttr ==
    /\ hpc = "attrs"
    /\ next_char(pos) # ">"
    /\ LET n == parse_tag_name(pos)
           e == AttrEnd(pos) IN
        /\ e # -1
        /\ open' = [open EXCEPT ![Len(open)].attributes =
                        AttrInsert(@, consumed(pos, n), consumed(n + 2, e - 1))]
        /\ pos' = consume_whitespace(e)
        /\ UNCHANGED <<hother, source, input, hpc, dom>>

\* parse_attributes, one iteration in which parse_attr aborts
ParseAttrPanic ==
    /\ hpc = "attrs"
    /\ next_char(pos) # ">"
    /\ AttrEnd(pos) = -1
    /\ hpc' = "panic"
    /\ UNCHANGED <<hother, source, input, pos, open, dom>>

\* parse_attributes breaks on '>', parse_element consumes it and calls parse_nodes
ParseAttributesEnd ==
    /\ hpc = "attrs"
    /\ next_char(pos) = ">"
    /\ pos' = pos + 1
    /\ hpc' = "nodes"
    /\ UNCHANGED <<hother, source, input, open, dom>>

\* the four asserts that close an element, from position p: the position after '>',
\* or -1 when one of them (or the unwrap in consume_char) fails
CloseEnd(p, name) ==
    LET q == parse_tag_name(p + 2) IN
    IF eof(p) \/ next_char(p) # "<" THEN -1
    ELSE IF eof(p + 1) \/ next_char(p + 1) # "/" THEN -1
    ELSE IF consumed(p + 2, q) # name THEN -1
    ELSE IF eof(q) \/ next_char(q) # ">" THEN -1
    ELSE q + 1

\* the children of an element as parse_element hands them to elem
ElementChildren(nodes) == nodes

\* parse_element after parse_nodes returned: the closing tag matches
ParseElementClose ==
    /\ hpc = "ret"
    /\ Len(open) > 1
    /\ CloseEnd(pos, Top.tag_name) # -1
    /\ pos' = CloseEnd(pos, Top.tag_name)
    /\ open' = PushNode(SubSeq(open, 1, Len(open) - 1),
                        elem(Top.tag_name, Top.attributes, ElementChildren(Top.nodes)))
    /\ hpc' = "nodes"
    /\ UNCHANGED <<hother, source, input, dom>>

\* parse_element after parse_nodes returned: an assert fails
ParseElementClosePanic ==
    /\ hpc = "ret"
    /\ Len(open) > 1
    /\ CloseEnd(pos, Top.tag_name) = -1
    /\ hpc' = "panic"
    /\ UNCHANGED <<hother, source, input, pos, open, dom>>

\* mutant: the top-level nodes always wrapped
RootAlwaysWrapped(nodes) == elem(<<"html">>, {}, nodes)

\* html::parse, the choice of the root
RootOf(nodes) ==
    IF Len(nodes) = 1 THEN nodes[1] ELSE elem(<<"html">>, {}, nodes)

\* html::parse after the top-level parse_nodes returned
ParseReturn ==
    /\ hpc = "ret"
    /\ Len(open) = 1
    /\ dom' = RootOf(Top.nodes)
    /\ hpc' = "done"
    /\ UNCHANGED <<hother, source, input, pos, open>>

HtmlNext ==
    \/ ParseNodesBreak
    \/ ParseText
    \/ ParseElementOpen
    \/ ParseAttr
    \/ ParseAttrPanic
    \/ ParseAttributesEnd
    \/ ParseElementClose
    \/ ParseElementClosePanic
    \/ ParseReturn

SpecHtml == HtmlInit /\ [][HtmlNext]_vars

\* parse runs to its return or to its abort once called: nothing suspends it
SpecHtmlLive == SpecHtml /\ WF_vars(HtmlNext)

-----------------------------------------------------------------------------
(* ---- what the source text says, read off the lexemes it was written from *)

RECURSIVE Nested(_, _)
Nested(i, st) ==
    IF i > Len(source) THEN st = <<>>
    ELSE LET l == Lexemes[source[i]] IN
         CASE l.kind = "open"  -> Nested(i + 1, Append(st, l.name))
           [] l.kind = "close" -> /\ st # <<>>
                                  /\ st[Len(st)] = l.name
                                  /\ Nested(i + 1, SubSeq(st, 1, Len(st) - 1))
           [] l.kind = "bad"   -> FALSE
           [] OTHER            -> Nested(i + 1, st)

\* the source is a balanced, well-quoted fragment
Balanced == Nested(1, <<>>)

\* its number of open/close tag pairs
TagPairs == Cardinality({i \in DOMAIN source : Lexemes[source[i]].kind = "open"})

RECURSIVE CountElements(_), CountForest(_)
CountElements(n) == (IF n.kind = "Element" THEN 1 ELSE 0) + CountForest(n.children)
CountForest(ns) == IF ns = <<>> THEN 0 ELSE CountElements(Head(ns)) + CountForest(Tail(ns))

AttrText(attrs) ==
    IF attrs = {} THEN <<>>
    ELSE LET a == CHOOSE x \in attrs : TRUE IN <<" ">> \o a[1] \o <<"=", "'">> \o a[2] \o <<"'">>

\* a tree written back as markup: tag names, nesting and order of children
RECURSIVE Serialize(_), SerializeForest(_)
Serialize(n) ==
    IF n.kind = "Text" THEN n.data
    ELSE <<"<">> \o n.tag_name \o AttrText(n.attributes) \o <<">">>
         \o SerializeForest(n.children) \o <<"<", "/">> \o n.tag_name \o <<">">>
SerializeForest(ns) == IF ns = <<>> THEN <<>> ELSE Serialize(Head(ns)) \o SerializeForest(Tail(ns))

NotSpace(c) == c \notin WhitespaceChars
Strip(s) == SelectSeq(s, NotSpace)

IsWrapper(n) == n.kind = "Element" /\ n.tag_name = <<"html">>

\* the nodes parsed from the source: the root, or the children of the synthesized root
SourceNodes(n) == IF IsWrapper(n) THEN n.children ELSE <<n>>

C8_FailFast ==
    hpc = "done" => (Balanced /\ pos = Len(input))

-----------------------------------------------------------------------------
(* ================= CssParser (src/src/parser/css_parser.rs) ============= *)

\* fixed point: 1.00 is Scale
Scale == 100

\* the numerals of the modelled texts and what str::parse::<f32> makes of them
NumVal ==
    ("0" :> 0) @@ ("0.5" :> 50) @@ ("1" :> 100) @@ ("2" :> 200) @@ ("3" :> 300)
    @@ ("4" :> 400) @@ ("10" :> 1000) @@ ("20" :> 2000) @@ ("32" :> 3200)
    @@ ("50" :> 5000) @@ ("150" :> 15000) @@ ("600" :> 60000)

IsNumber(s) == Len(s) = 1 /\ s[1] \in DOMAIN NumVal

\* str::to_lowercase on the atoms of the modelled texts
ToLower(a) ==
    CASE a = "COLOR" -> "color"
      [] a = "RED"   -> "red"
      [] a = "DIV"   -> "div"
      [] OTHER       -> a
ToLowerSeq(s) == [i \in DOMAIN s |-> ToLower(s[i])]

RECURSIVE TrimStart(_)
TrimStart(s) == IF s # <<>> /\ Head(s) \in WhitespaceChars THEN TrimStart(Tail(s)) ELSE s

RECURSIVE TrimEnd(_)
TrimEnd(s) ==
    IF s # <<>> /\ s[Len(s)] \in WhitespaceChars THEN TrimEnd(SubSeq(s, 1, Len(s) - 1)) ELSE s

\* str::trim
Trim(s) == TrimEnd(TrimStart(s))

\* str::find / str::rfind of one character: its index, 0 when absent
Find(s, c) == IF \E i \in DOMAIN s : s[i] = c
              THEN CHOOSE i \in DOMAIN s : s[i] = c /\ \A j \in 1..(i - 1) : s[j] # c
              ELSE 0
RFind(s, c) == IF \E i \in DOMAIN s : s[i] = c
               THEN CHOOSE i \in DOMAIN s : s[i] = c /\ \A j \in (i + 1)..Len(s) : s[j] # c
               ELSE 0

\* str::split on one character: k separators give k + 1 pieces
RECURSIVE Split(_, _)
Split(s, c) ==
    LET i == Find(s, c) IN
    IF i = 0 THEN <<s>> ELSE <<SubSeq(s, 1, i - 1)>> \o Split(SubSeq(s, i + 1, Len(s)), c)

NonEmpty(x) == x # <<>>

\* str::split_whitespace
SplitWhitespace(s) == SelectSeq(Split(s, " "), NonEmpty)

\* str::trim_end_matches("!important")
RECURSIVE TrimEndImportant(_)
TrimEndImportant(s) ==
    IF s # <<>> /\ s[Len(s)] = "!important"
    THEN TrimEndImportant(SubSeq(s, 1, Len(s) - 1)) ELSE s

\* CssValue
NoColor == [r |-> 0, g |-> 0, b |-> 0, a |-> 0]
Keyword(w)    == [kind |-> "Keyword", num |-> 0, unit |-> "", word |-> w, color |-> NoColor]
Length(n, u)  == [kind |-> "Length", num |-> n, unit |-> u, word |-> <<>>, color |-> NoColor]
Percentage(n) == [kind |-> "Percentage", num |-> n, unit |-> "", word |-> <<>>, color |-> NoColor]
Number(n)     == [kind |-> "Number", num |-> n, unit |-> "", word |-> <<>>, color |-> NoColor]
Color(c)      == [kind |-> "Color", num |-> 0, unit |-> "", word |-> <<>>, color |-> c]

\* CssColor::rgb / rgba
rgb(r, g, b) == [r |-> r, g |-> g, b |-> b, a |-> Scale]
rgba(r, g, b, a) == [r |-> r, g |-> g, b |-> b, a |-> a]

\* CssColor::from_name (the names the modelled texts use)
NamedColors ==
    ("black" :> rgb(0, 0, 0)) @@ ("white" :> rgb(255, 255, 255)) @@ ("red" :> rgb(255, 0, 0))
    @@ ("green" :> rgb(0, 128, 0)) @@ ("blue" :> rgb(0, 0, 255))
    @@ ("transparent" :> rgba(0, 0, 0, 0))

\* CssColor::from_hex (the digit strings the modelled texts use)
HexColors ==
    ("fff" :> rgb(255, 255, 255)) @@ ("ff0000" :> rgb(255, 0, 0))
    @@ ("f5f5f5" :> rgb(245, 245, 245))

\* the unit table of parse_length, in the order it is tried
Units == <<"px", "em", "rem", "vh", "vw", "%", "pt", "cm", "mm", "in">>

\* CssParser::parse_length: <<value>> or <<>> for None
parse_length(value) ==
    IF Len(value) = 2 /\ value[2] \in Range(Units) /\ value[1] \in DOMAIN NumVal
    THEN IF value[2] = "%" THEN <<Percentage(NumVal[value[1]])>>
         ELSE <<Length(NumVal[value[1]], value[2])>>
    ELSE <<>>

\* CssParser::parse_value: <<value>> or <<>> for None
parse_value(v) ==
    LET value == Trim(v) IN
    IF value = <<>> THEN <<>>
    ELSE IF value[1] = "#" /\ Len(value) = 2 /\ value[2] \in DOMAIN HexColors
        THEN <<Color(HexColors[value[2]])>>
    ELSE IF Len(value) = 1 /\ ToLower(value[1]) \in DOMAIN NamedColors
        THEN <<Color(NamedColors[ToLower(value[1])])>>
    ELSE IF parse_length(value) # <<>> THEN parse_length(value)
    ELSE IF IsNumber(value) THEN <<Number(NumVal[value[1]])>>
    ELSE <<Keyword(value)>>

\* HashMap::insert
Put(m, k, v) == [x \in DOMAIN m \cup {k} |-> IF x = k THEN v ELSE m[x]]

EmptyMap == [x \in {} |-> 0]

\* insert under each of the keys when the value parsed
PutAll(m, keys, pv) ==
    IF pv = <<>> THEN m
    ELSE [x \in DOMAIN m \cup keys |-> IF x \in keys THEN pv[1] ELSE m[x]]

\* the longhand key of a side
Side(prop, side) ==
    CASE prop = "margin"  /\ side = "top"    -> <<"margin-top">>
      [] prop = "margin"  /\ side = "right"  -> <<"margin-right">>
      [] prop = "margin"  /\ side = "bottom" -> <<"margin-bottom">>
      [] prop = "margin"  /\ side = "left"   -> <<"margin-left">>
      [] prop = "padding" /\ side = "top"    -> <<"padding-top">>
      [] prop = "padding" /\ side = "right"  -> <<"padding-right">>
      [] prop = "padding" /\ side = "bottom" -> <<"padding-bottom">>
      [] prop = "padding" /\ side = "left"   -> <<"padding-left">>

\* mutant: the four-value form read as top, left, bottom, right
FanOut4Swapped(prop, parts, result) ==
    PutAll(PutAll(PutAll(PutAll(result,
        {Side(prop, "top")}, parse_value(parts[1])),
        {Side(prop, "left")}, parse_value(parts[2])),
        {Side(prop, "bottom")}, parse_value(parts[3])),
        {Side(prop, "right")}, parse_value(parts[4]))

\* parse_shorthand_property, the arm for four values
FanOut4(prop, parts, result) ==
    PutAll(PutAll(PutAll(PutAll(result,
        {Side(prop, "top")}, parse_value(parts[1])),
        {Side(prop, "right")}, parse_value(parts[2])),
        {Side(prop, "bottom")}, parse_value(parts[3])),
        {Side(prop, "left")}, parse_value(parts[4]))

\* parse_shorthand_property, the arms for "margin" and for "padding"
FanOut(prop, parts, result) ==
    CASE Len(parts) = 1 ->
            PutAll(result, {Side(prop, "top"), Side(prop, "right"),
                            Side(prop, "bottom"), Side(prop, "left")}, parse_value(parts[1]))
      [] Len(parts) = 2 ->
            PutAll(PutAll(result,
                {Side(prop, "top"), Side(prop, "bottom")}, parse_value(parts[1])),
                {Side(prop, "left"), Side(prop, "right")}, parse_value(parts[2]))
      [] Len(parts) = 3 ->
            PutAll(PutAll(PutAll(result,
                {Side(prop, "top")}, parse_value(parts[1])),
                {Side(prop, "left"), Side(prop, "right")}, parse_value(parts[2])),
                {Side(prop, "bottom")}, parse_value(parts[3]))
      [] Len(parts) = 4 -> FanOut4(prop, parts, result)
      [] OTHER -> result

\* CssParser::parse_shorthand_property
parse_shorthand_property(property, value, result) ==
    IF property = <<"margin">> THEN FanOut("margin", SplitWhitespace(value), result)
    ELSE IF property = <<"padding">> THEN FanOut("padding", SplitWhitespace(value), result)
    ELSE PutAll(result, {property}, parse_value(value))

\* the characters of the digit strings after '#': the bytes each takes in UTF-8 and
\* whether it is a hexadecimal digit; "u00E9a" stands for U+00E9 followed by a
HexChars ==
    ("fff" :> [i \in 1..3 |-> [width |-> 1, digit |-> TRUE]]) @@
    ("ff0000" :> [i \in 1..6 |-> [width |-> 1, digit |-> TRUE]]) @@
    ("f5f5f5" :> [i \in 1..6 |-> [width |-> 1, digit |-> TRUE]]) @@
    ("u00E9a" :> <<[width |-> 2, digit |-> FALSE], [width |-> 1, digit |-> TRUE]>>) @@
    ("au00E9" :> <<[width |-> 1, digit |-> TRUE], [width |-> 2, digit |-> FALSE]>>) @@
    ("zu00E9" :> <<[width |-> 1, digit |-> FALSE], [width |-> 2, digit |-> FALSE]>>) @@
    ("u00E9" :> <<[width |-> 2, digit |-> FALSE]>>)

\* the byte offset at which character k of the string starts
ByteOffset(chars, k) == SumSeq([i \in 1..(k - 1) |-> chars[i].width])

\* str::is_char_boundary
is_char_boundary(chars, index) == \E k \in 1..(Len(chars) + 1) : ByteOffset(chars, k) = index

\* u8::from_str_radix(&hex[from..to], 16).is_ok(), the slice being on character boundaries
is_radix16(chars, from, to) ==
    \A k \in 1..Len(chars) :
        (from <= ByteOffset(chars, k) /\ ByteOffset(chars, k) < to) => chars[k].digit

\* CssColor::from_hex, the slices taken one after the other: "panic" when a slice is
\* not on character boundaries, "none" when it is not a number, "some" after the last
RECURSIVE from_hex_slices(_, _, _, _)
from_hex_slices(chars, from, step, len) ==
    IF from >= len THEN "some"
    ELSE IF ~is_char_boundary(chars, from) \/ ~is_char_boundary(chars, from + step) THEN "panic"
    ELSE IF ~is_radix16(chars, from, from + step) THEN "none"
    ELSE from_hex_slices(chars, from + step, step, len)

\* CssColor::from_hex on the digits after '#'
from_hex(hex) ==
    LET chars == HexChars[hex]
        len == ByteOffset(chars, Len(chars) + 1) IN
    IF len = 3 THEN from_hex_slices(chars, 0, 1, len)
    ELSE IF len \in {6, 8} THEN from_hex_slices(chars, 0, 2, len)
    ELSE "none"

\* CssParser::parse_value aborts: the value starts with '#' and from_hex panics
parse_value_panics(v) ==
    LET value == Trim(v) IN
    Len(value) = 2 /\ value[1] = "#" /\ value[2] \in DOMAIN HexChars
        /\ from_hex(value[2]) = "panic"

\* CssParser::parse_declarations, one piece between semicolons
parse_declaration(piece, result) ==
    LET decl == Trim(piece)
        colon_pos == Find(decl, ":") IN
    IF decl = <<>> \/ colon_pos = 0 THEN result
    ELSE parse_shorthand_property(
            ToLowerSeq(Trim(SubSeq(decl, 1, colon_pos - 1))),
            Trim(TrimEndImportant(Trim(SubSeq(decl, colon_pos + 1, Len(decl))))),
            result)

RECURSIVE parse_pieces(_, _)
parse_pieces(pieces, result) ==
    IF pieces = <<>> THEN result
    ELSE parse_pieces(Tail(pieces), parse_declaration(Head(pieces), result))

\* CssParser::parse_declarations (and parse_inline_style)
parse_declarations(declarations) == parse_pieces(Split(declarations, ";"), EmptyMap)

\* CssParser::parse_declarations aborts: parse_value panics on the value of a
\* declaration, or on one of the parts of a margin or padding shorthand
parse_declarations_panics(declarations) ==
    \E piece \in Range(Split(declarations, ";")) :
        LET decl == Trim(piece)
            colon_pos == Find(decl, ":")
            property == ToLowerSeq(Trim(SubSeq(decl, 1, colon_pos - 1)))
            value == Trim(TrimEndImportant(Trim(SubSeq(decl, colon_pos + 1, Len(decl)))))
            parts == SplitWhitespace(value) IN
        /\ decl # <<>> /\ colon_pos # 0
        /\ IF property \in {<<"margin">>, <<"padding">>}
           THEN Len(parts) \in 1..4 /\ \E i \in DOMAIN parts : parse_value_panics(parts[i])
           ELSE parse_value_panics(value)

\* CssParser::remove_comments
RECURSIVE SkipComment(_)
SkipComment(s) ==
    IF s = <<>> THEN <<>>
    ELSE IF s[1] = "*" /\ Len(s) >= 2 /\ s[2] = "/" THEN SubSeq(s, 3, Len(s))
    ELSE SkipComment(Tail(s))

RECURSIVE remove_comments(_)
remove_comments(s) ==
    IF s = <<>> THEN <<>>
    ELSE IF s[1] = "/" /\ Len(s) >= 2 /\ s[2] = "*"
        THEN remove_comments(SkipComment(SubSeq(s, 3, Len(s))))
    ELSE <<s[1]>> \o remove_comments(Tail(s))

\* CssParser::split_rules: the loop over the characters, from character i on
RECURSIVE split_from(_, _, _, _, _)
split_from(s, i, current, brace_depth, rules) ==
    IF i > Len(s) THEN rules
    ELSE IF s[i] = "{" THEN split_from(s, i + 1, Append(current, s[i]), brace_depth + 1, rules)
    ELSE IF s[i] = "}" THEN
        IF brace_depth - 1 = 0
        THEN split_from(s, i + 1, <<>>, 0,
                        IF Trim(Append(current, s[i])) # <<>>
                        THEN Append(rules, Trim(Append(current, s[i]))) ELSE rules)
        ELSE split_from(s, i + 1, Append(current, s[i]), brace_depth - 1, rules)
    ELSE split_from(s, i + 1, Append(current, s[i]), brace_depth, rules)

split_rules(s) == split_from(s, 1, <<>>, 0, <<>>)

TrimAll(ss) == [i \in DOMAIN ss |-> Trim(ss[i])]

\* parse_rule, the test that skips a rule
IsAtRule(selector_part) == selector_part # <<>> /\ selector_part[1] = "@"

\* CssParser::parse_rule: <<rule>> or <<>> for None
parse_rule(rule) ==
    LET brace_pos == Find(rule, "{")
        end_brace == RFind(rule, "}")
        selector_part == Trim(SubSeq(rule, 1, brace_pos - 1))
        declarations_part == Trim(SubSeq(rule, brace_pos + 1, end_brace - 1))
        selectors == SelectSeq(TrimAll(Split(selector_part, ",")), NonEmpty) IN
    IF brace_pos = 0 \/ end_brace = 0 THEN <<>>
    ELSE IF IsAtRule(selector_part) THEN <<>>
    ELSE IF selectors = <<>> THEN <<>>
    ELSE <<[selectors |-> selectors, declarations |-> parse_declarations(declarations_part)]>>

RECURSIVE parse_rules(_)
parse_rules(rule_strs) ==
    IF rule_strs = <<>> THEN <<>>
    ELSE parse_rule(Head(rule_strs)) \o parse_rules(Tail(rule_strs))

\* CssParser::parse: always Ok(stylesheet)
parse(text_) == parse_rules(split_rules(remove_comments(text_)))

\* ---- the style-sheet texts

red == rgb(255, 0, 0)
blue == rgb(0, 0, 255)
px(n) == Length(NumVal[n], "px")

\* the pieces style sheets are written from; a "rule" piece is a well-formed rule
\* block and names the rule it stands for
CssLexemes == <<
    [kind |-> "rule",
     chars |-> <<"a", " ", "{", " ", "COLOR", ":", " ", "red", " ", "!important", ";", " ", "}">>,
     rule |-> [selectors |-> << <<"a">> >>,
               declarations |-> (<<"color">> :> Color(red))]],
    [kind |-> "rule",
     chars |-> <<"b", "{", "color", " ", "red", ";", "width", ":", "1", "px", "}">>,
     rule |-> [selectors |-> << <<"b">> >>,
               declarations |-> (<<"width">> :> px("1"))]],
    [kind |-> "rule",
     chars |-> <<"a", ">", "b", ",", " ", "b", "{", "color", ":", "blue", "}">>,
     rule |-> [selectors |-> << <<"a", ">", "b">>, <<"b">> >>,
               declarations |-> (<<"color">> :> Color(blue))]],
    [kind |-> "brace", chars |-> <<"}">>, rule |-> <<>>],
    [kind |-> "brace", chars |-> <<"{">>, rule |-> <<>>],
    [kind |-> "at",
     chars |-> <<"@", "media", " ", "s", "{", "a", "{", "color", ":", "blue", "}", "}">>,
     rule |-> <<>>],
    [kind |-> "at", chars |-> <<"@", "import", " ", "u", ";">>, rule |-> <<>>],
    [kind |-> "comment", chars |-> <<"/", "*", "}", "*", "/">>, rule |-> <<>>],
    [kind |-> "ws", chars |-> <<" ">>, rule |-> <<>>] >>

MaxCssLexemes == 3

CssInit ==
    /\ css_source \in SeqsUpTo(DOMAIN CssLexemes, MaxCssLexemes)
    /\ css = Flatten([i \in DOMAIN css_source |-> CssLexemes[css_source[i]].chars])
    /\ stylesheet = <<>>
    /\ cpc = "start"
    /\ HtmlIdle /\ LayoutIdle /\ RendererIdle /\ SelectorIdle /\ PipelineIdle /\ FlattenIdle /\ BrowserIdle

\* CssParser::parse
CssParse ==
    /\ cpc = "start"
    /\ stylesheet' = parse(css)
    /\ cpc' = "done"
    /\ UNCHANGED <<cother, css_source, css>>

CssNext == CssParse

SpecCss == CssInit /\ [][CssNext]_vars

\* ---- shorthand declarations

ShorthandValues == << <<"1", "px">>, <<"2", "px">>, <<"3", "em">>, <<"auto">> >>

MaxParts == 4

RECURSIVE JoinSpace(_)
JoinSpace(ss) == IF ss = <<>> THEN <<>> ELSE <<" ">> \o Head(ss) \o JoinSpace(Tail(ss))

ShorthandInit ==
    /\ css_source \in [prop : {"margin", "padding"},
                       parts : SeqsUpTo(DOMAIN ShorthandValues, MaxParts)]
    /\ css = <<"a", "{", css_source.prop, ":">>
             \o JoinSpace([i \in DOMAIN css_source.parts |-> ShorthandValues[css_source.parts[i]]])
             \o <<"}">>
    /\ stylesheet = <<>>
    /\ cpc = "start"
    /\ HtmlIdle /\ LayoutIdle /\ RendererIdle /\ SelectorIdle /\ PipelineIdle /\ FlattenIdle /\ BrowserIdle

SpecShorthand == ShorthandInit /\ [][CssNext]_vars

-----------------------------------------------------------------------------
(* ---- claims about the style-sheet parser *)

\* the value of the i-th part of the shorthand declaration
PartValue(i) == parse_value(ShorthandValues[css_source.parts[i]])[1]

\* the part each side takes, by the number of parts
SidePart(n, side) ==
    CASE n = 1 -> 1
      [] n = 2 -> IF side \in {"top", "bottom"} THEN 1 ELSE 2
      [] n = 3 -> IF side = "top" THEN 1 ELSE IF side = "bottom" THEN 3 ELSE 2
      [] n = 4 -> IF side = "top" THEN 1 ELSE IF side = "right" THEN 2
                  ELSE IF side = "bottom" THEN 3 ELSE 4

Sides == {"top", "right", "bottom", "left"}

\* C6: a margin or padding declaration with 1, 2, 3 or 4 values sets the four
\* longhand sides by the fan-out rule, and the parsed map holds exactly the four
\* longhand keys (no margin or padding key).
C6_ShorthandExpansion ==
    (cpc = "done" /\ Len(css_source.parts) \in 1..4) =>
        /\ Len(stylesheet) = 1
        /\ LET d == stylesheet[1].declarations
               n == Len(css_source.parts) IN
            /\ DOMAIN d = {Side(css_source.prop, sd) : sd \in Sides}
            /\ \A sd \in Sides : d[Side(css_source.prop, sd)] = PartValue(SidePart(n, sd))

C6_Witness ==
    /\ cpc = "done"
    /\ css_source.prop = "margin"
    /\ css_source.parts = <<1, 2, 3, 4>>
    /\ stylesheet[1].declarations[<<"margin-left">>] = Keyword(<<"auto">>)
    /\ stylesheet[1].declarations[<<"margin-right">>] = Length(200, "px")

\* the rules of the well-formed rule blocks of the text, in source order
RECURSIVE RulesOf(_)
RulesOf(src) ==
    IF src = <<>> THEN <<>>
    ELSE (IF CssLexemes[Head(src)].kind = "rule" THEN <<CssLexemes[Head(src)].rule>> ELSE <<>>)
         \o RulesOf(Tail(src))

\* s occurs in t, in order
RECURSIVE IsSubseq(_, _)
IsSubseq(s, t) ==
    IF s = <<>> THEN TRUE
    ELSE IF t = <<>> THEN FALSE
    ELSE IF Head(s) = Head(t) THEN IsSubseq(Tail(s), Tail(t))
    ELSE IsSubseq(s, Tail(t))

\* C9: CssParser::parse returns a rule list for every text; every well-formed rule
\* block yields its rule (an unparseable declaration dropped, the others kept)
\* whatever malformed text precedes or follows it, and a text with no well-formed
\* rule block yields the empty list.
C9_FailSoft ==
    cpc = "done" =>
        /\ IsSubseq(RulesOf(css_source), stylesheet)
        /\ RulesOf(css_source) = <<>> => stylesheet = <<>>

\* the text holds rule blocks, at-rules, comments and white space only
OnlyRulesAndAtRules ==
    \A i \in DOMAIN css_source : CssLexemes[css_source[i]].kind \in {"rule", "at", "comment", "ws"}

\* C10: an at-rule, with a block or without, contributes no rule, and every ordinary
\* rule before and after it is parsed and kept in source order.
C10_AtRulesSkipped ==
    (cpc = "done" /\ OnlyRulesAndAtRules) => stylesheet = RulesOf(css_source)

-----------------------------------------------------------------------------
(* ================= layout crate (src/layout/src/lib.rs) ================= *)

\* css::Value (src/css/src/lib.rs), lengths in whole pixels
VLength(n)  == [kind |-> "Length", num |-> n, word |-> "", rgba |-> <<>>]
VKeyword(w) == [kind |-> "Keyword", num |-> 0, word |-> w, rgba |-> <<>>]
VColorValue(r, g, b, a) == [kind |-> "ColorValue", num |-> 0, word |-> "", rgba |-> <<r, g, b, a>>]

\* css::StyledNode
StyledNode(node, values, children) ==
    [node |-> node, specified_values |-> values, children |-> children]

Rect(x, y, w, h) == [x |-> x, y |-> y, width |-> w, height |-> h]
EdgeSizes(l, r, t, b) == [left |-> l, right |-> r, top |-> t, bottom |-> b]

\* Dimensions::default
DefaultDimensions ==
    [content |-> Rect(0, 0, 0, 0), padding |-> EdgeSizes(0, 0, 0, 0),
     border |-> EdgeSizes(0, 0, 0, 0), margin |-> EdgeSizes(0, 0, 0, 0)]

\* LayoutBox
LayoutBox(node, dims, children) ==
    [style_node |-> node, dimensions |-> dims, children |-> children]

\* LayoutBox::property: <<value>> or <<>> for None
property(node, name) ==
    IF name \in DOMAIN node.specified_values THEN <<node.specified_values[name]>> ELSE <<>>

\* Option::unwrap_or
unwrap_or(opt, default) == IF opt = <<>> THEN default ELSE opt[1]

\* layout::to_px
to_px(value) == IF value.kind = "Length" THEN value.num ELSE 0

\* calculate_width, the content width of a box whose width is auto
AutoWidth(total_width, ml, mr) == total_width - ml - mr

\* layout::calculate_width: the dimensions with content.width, margin.left and
\* margin.right set
calculate_width(node, dims, containing_block) ==
    LET width == unwrap_or(property(node, "width"), VKeyword("auto"))
        margin_left == unwrap_or(property(node, "margin-left"), VLength(0))
        margin_right == unwrap_or(property(node, "margin-right"), VLength(0))
        total_width == containing_block.content.width
        w == IF width.kind = "Keyword"
             THEN IF width.word = "auto"
                  THEN AutoWidth(total_width, to_px(margin_left), to_px(margin_right))
                  ELSE dims.content.width
             ELSE to_px(width) IN
    [dims EXCEPT !.content.width = w,
                 !.margin.left = to_px(margin_left),
                 !.margin.right = to_px(margin_right)]

\* EdgeSizes::box_height
box_height(e) == e.top + e.bottom

\* layout_tree, the running y after a child
Advance(child_y, child_box) ==
    child_y + box_height(child_box.dimensions.margin) + child_box.dimensions.content.height

\* layout::layout_tree
RECURSIVE layout_tree(_, _), layout_children(_, _, _, _)
layout_tree(node, containing_block) ==
    LET d1 == calculate_width(node, DefaultDimensions, containing_block)
        d2 == [d1 EXCEPT
                !.content.x = containing_block.content.x + d1.margin.left
                              + d1.border.left + d1.padding.left,
                !.content.y = containing_block.content.y + d1.margin.top
                              + d1.border.top + d1.padding.top]
        kids == layout_children(node.children, d2, d2.content.y, <<>>)
        height == unwrap_or(property(node, "height"), VKeyword("auto"))
        h == IF height.kind = "Length" THEN height.num ELSE kids.child_y - d2.content.y IN
    LayoutBox(node, [d2 EXCEPT !.content.height = h], kids.boxes)

\* layout_tree, the loop over node.children
layout_children(children, dims, child_y, boxes) ==
    IF children = <<>> THEN [child_y |-> child_y, boxes |-> boxes]
    ELSE LET parent_dims == [dims EXCEPT !.content.height = 0, !.content.y = child_y]
             child_box == layout_tree(Head(children), parent_dims) IN
         layout_children(Tail(children), dims, Advance(child_y, child_box),
                         Append(boxes, child_box))

\* ---- the styled trees

\* the styled node of a div with these specified values and children
Styled(values, children) ==
    StyledNode(elem(<<"div">>, {}, [i \in DOMAIN children |-> children[i].node]),
               values, children)

Leaf(values) == Styled(values, <<>>)

\* the subtrees a block's children are taken from
ChildTrees == <<
    Leaf("height" :> VLength(10)),
    Leaf("height" :> VLength(20)),
    Leaf("height" :> VLength(30)),
    Leaf(("height" :> VLength(6)) @@ ("margin-top" :> VLength(2)) @@ ("margin-bottom" :> VLength(2))),
    Leaf(("width" :> VLength(600)) @@ ("margin-left" :> VKeyword("auto"))
         @@ ("margin-right" :> VKeyword("auto")) @@ ("height" :> VLength(10))),
    Styled(("margin-left" :> VLength(10)) @@ ("margin-right" :> VLength(20)),
           <<Leaf("height" :> VLength(10)), Leaf("height" :> VLength(20))>>),
    Leaf(("margin-left" :> VLength(700)) @@ ("margin-right" :> VLength(600))
         @@ ("height" :> VLength(10))),
    Leaf(("width" :> VLength(-5)) @@ ("height" :> VLength(-10))) >>

\* the specified values a root is given
RootValues == {
    EmptyMap,
    "height" :> VLength(40),
    ("width" :> VLength(600)) @@ ("margin-left" :> VKeyword("auto"))
        @@ ("margin-right" :> VKeyword("auto")),
    ("margin-left" :> VLength(10)) @@ ("margin-right" :> VLength(20)) }

\* the containing blocks: content width and origin
Viewports == {Rect(0, 0, 1200, 0), Rect(8, 8, 800, 0)}

MaxChildren == 3

LayoutInit ==
    /\ \E values \in RootValues, kids \in SeqsUpTo(DOMAIN ChildTrees, MaxChildren) :
        styled = Styled(values, [i \in DOMAIN kids |-> ChildTrees[kids[i]]])
    /\ \E r \in Viewports : containing = [DefaultDimensions EXCEPT !.content = r]
    /\ layout = <<>>
    /\ lpc = "start"
    /\ HtmlIdle /\ CssIdle /\ RendererIdle /\ SelectorIdle /\ PipelineIdle /\ FlattenIdle /\ BrowserIdle

\* layout::layout_tree on the root
LayoutTree ==
    /\ lpc = "start"
    /\ layout' = layout_tree(styled, containing)
    /\ lpc' = "done"
    /\ UNCHANGED <<lother, styled, containing>>

LayoutNext == LayoutTree

SpecLayout == LayoutInit /\ [][LayoutNext]_vars

-----------------------------------------------------------------------------
(* ---- claims about the layout engine *)

\* the boxes of a layout tree, each with the containing block it was laid out in
RECURSIVE Boxes(_, _)
Boxes(box, cb) ==
    {[box |-> box, cb |-> cb]}
    \cup UNION {Boxes(box.children[i], box.dimensions.content) : i \in DOMAIN box.children}

AllBoxes == Boxes(layout, containing.content)

\* a length the node declares, 0 when it declares none
Declared(node, name) == to_px(unwrap_or(property(node, name), VLength(0)))

HasExplicitHeight(node) ==
    "height" \in DOMAIN node.specified_values /\ node.specified_values["height"].kind = "Length"

\* the margin-box height of a child box: its content height plus its top and bottom
\* margins
MarginBoxHeight(b) ==
    b.dimensions.content.height + Declared(b.style_node, "margin-top")
    + Declared(b.style_node, "margin-bottom")

\* C3: a block with no explicit height is as high as the sum of its children's
\* margin-box heights, and each child starts at the parent's content y plus the
\* margin-box heights of the siblings before it.
C3_HeightAccumulation ==
    lpc = "done" =>
        \A e \in AllBoxes :
            LET b == e.box
                mbh == [i \in DOMAIN b.children |-> MarginBoxHeight(b.children[i])] IN
            /\ ~HasExplicitHeight(b.style_node) => b.dimensions.content.height = SumSeq(mbh)
            /\ \A i \in DOMAIN b.children :
                b.children[i].dimensions.content.y
                    = b.dimensions.content.y + SumSeq(SubSeq(mbh, 1, i - 1))

IsAuto(node, name) ==
    name \in DOMAIN node.specified_values /\ node.specified_values[name] = VKeyword("auto")

HasFixedWidth(node) ==
    "width" \in DOMAIN node.specified_values /\ node.specified_values["width"].kind = "Length"

\* C4: a block of fixed width W with both horizontal margins auto, in a containing
\* block of content width C >= W, has its content x at the containing block's
\* content x + (C - W) / 2.
C4_AutoCentering ==
    lpc = "done" =>
        \A e \in AllBoxes :
            (/\ HasFixedWidth(e.box.style_node)
             /\ IsAuto(e.box.style_node, "margin-left")
             /\ IsAuto(e.box.style_node, "margin-right")
             /\ e.cb.width >= e.box.dimensions.content.width)
            => e.box.dimensions.content.x
                 = e.cb.x + (e.cb.width - e.box.dimensions.content.width) \div 2

\* the boxes of a layout tree, each with the origin of the containing block
\* layout_tree was called with: the parent's content x and the running y
RECURSIVE Placed(_, _, _), PlacedChildren(_, _, _)
Placed(box, x, y) ==
    {[box |-> box, x |-> x, y |-> y]}
    \cup PlacedChildren(box.children, box.dimensions.content.x, box.dimensions.content.y)
PlacedChildren(boxes, x, child_y) ==
    IF boxes = <<>> THEN {}
    ELSE Placed(Head(boxes), x, child_y)
         \cup PlacedChildren(Tail(boxes), x, Advance(child_y, Head(boxes)))

AllPlaced == Placed(layout, containing.content.x, containing.content.y)

\* the margin, border and padding a node declares on a side
DeclaredEdges(node, side) ==
    Declared(node, "margin-" \o side) + Declared(node, "border-" \o side \o "-width")
    + Declared(node, "padding-" \o side)

\* C14: every box has its content origin at the containing block's content origin
\* plus the left (in x) and top (in y) margin, border and padding its node declares.
C14_Position ==
    lpc = "done" =>
        \A e \in AllPlaced :
            /\ e.box.dimensions.content.x = e.x + DeclaredEdges(e.box.style_node, "left")
            /\ e.box.dimensions.content.y = e.y + DeclaredEdges(e.box.style_node, "top")

\* C17: in a containing block of non-negative content width every box of the layout
\* tree has a content width >= 0.
C17_NonNegativeWidth ==
    (lpc = "done" /\ containing.content.width >= 0) =>
        \A e \in AllBoxes : e.box.dimensions.content.width >= 0

\* C18: of two sibling boxes the later one has its content y at or below the
\* earlier one's.
C18_StackingMonotone ==
    lpc = "done" =>
        \A e \in AllBoxes :
            \A i, j \in DOMAIN e.box.children :
                i < j => e.box.children[j].dimensions.content.y
                            >= e.box.children[i].dimensions.content.y

-----------------------------------------------------------------------------
(* ============== HtmlRenderer (src/src/parser/renderer.rs) =============== *)

\* f32 products and quotients in fixed point
Mul(a, b) == (a * b) \div Scale
Div(a, b) == (a * Scale) \div b

\* Option<T>
None == <<>>
Some(v) == <<v>>

\* dom::Node
Element(tag_name, attributes, children) ==
    [kind |-> "Element", tag_name |-> tag_name, attributes |-> attributes,
     children |-> children, text |-> <<>>]
TextNode(t) ==
    [kind |-> "Text", tag_name |-> "", attributes |-> EmptyMap, children |-> <<>>, text |-> t]

\* HtmlRenderer::new
base_font_size == 16 * Scale
viewport_width == 1200 * Scale
viewport_height == 800 * Scale

\* RenderColor::rgb / transparent
RenderRgb(r, g, b) == [r |-> r, g |-> g, b |-> b, a |-> Scale]
Transparent == [r |-> 0, g |-> 0, b |-> 0, a |-> 0]

\* ComputedStyles::default
DefaultStyles ==
    [display |-> <<"block">>, font_size |-> 16 * Scale, font_weight |-> "Normal",
     font_style |-> "Normal", text_decoration |-> "None", text_align |-> "Left",
     line_height |-> (3 * Scale) \div 2, color |-> RenderRgb(26, 26, 26),
     margin_top |-> 0, margin_bottom |-> 0, margin_left |-> 0, margin_right |-> 0,
     margin_left_auto |-> FALSE, margin_right_auto |-> FALSE,
     padding_top |-> 0, padding_bottom |-> 0, padding_left |-> 0, padding_right |-> 0,
     background_color |-> Transparent, width |-> None, width_percent |-> None]

\* apply_declarations_with_parent, the closure convert_length
convert_length(size, unit, current_font_size) ==
    CASE unit = "px"  -> size
      [] unit = "em"  -> Mul(current_font_size, size)
      [] unit = "rem" -> Mul(base_font_size, size)
      [] unit = "pt"  -> (size * 1333) \div 1000
      [] unit = "%"   -> Mul(current_font_size, size) \div 100
      [] unit = "vh"  -> Mul(viewport_height, size) \div 100
      [] unit = "vw"  -> Mul(viewport_width, size) \div 100
      [] OTHER        -> size

IsKeyword(value, w) == value.kind = "Keyword" /\ value.word = <<w>>

\* the font-size a keyword stands for
FontSizeKeyword(kw, styles, parent_font_size) ==
    CASE kw = <<"xx-small">> -> 9 * Scale
      [] kw = <<"x-small">>  -> 10 * Scale
      [] kw = <<"small">>    -> 13 * Scale
      [] kw = <<"medium">>   -> 16 * Scale
      [] kw = <<"large">>    -> 18 * Scale
      [] kw = <<"x-large">>  -> 24 * Scale
      [] kw = <<"xx-large">> -> 32 * Scale
      [] kw = <<"larger">>   -> (parent_font_size * 12) \div 10
      [] kw = <<"smaller">>  -> (parent_font_size * 10) \div 12
      [] OTHER               -> styles.font_size

\* mutant: an em font-size taken relative to the element's own current font-size
FontSizeOfCurrent(value, styles, parent_font_size) ==
    CASE value.kind = "Length"  -> convert_length(value.num, value.unit, styles.font_size)
      [] value.kind = "Keyword" -> FontSizeKeyword(value.word, styles, parent_font_size)
      [] value.kind = "Number"  -> value.num
      [] OTHER                  -> styles.font_size

\* apply_declarations_with_parent, the arm "font-size"
FontSizeOf(value, styles, parent_font_size) ==
    CASE value.kind = "Length"  -> convert_length(value.num, value.unit, parent_font_size)
      [] value.kind = "Keyword" -> FontSizeKeyword(value.word, styles, parent_font_size)
      [] value.kind = "Number"  -> value.num
      [] OTHER                  -> styles.font_size

\* a length of a margin or padding arm, relative to the current font-size
Len_(value, styles) == convert_length(value.num, value.unit, styles.font_size)

\* apply_declarations_with_parent, the arm "width"
WidthOf(value, styles) ==
    CASE value.kind = "Length" /\ value.unit \in {"vw", "%"} ->
            [styles EXCEPT !.width_percent = Some(value.num)]
      [] value.kind = "Length" /\ value.unit \notin {"vw", "%"} ->
            [styles EXCEPT !.width = Some(Len_(value, styles))]
      [] value.kind = "Percentage" -> [styles EXCEPT !.width_percent = Some(value.num)]
      [] IsKeyword(value, "auto") -> [styles EXCEPT !.width = None, !.width_percent = None]
      [] OTHER -> styles

\* apply_declarations_with_parent, the arms of one margin side
MarginSide(value, styles, field, auto) ==
    CASE value.kind = "Length" -> [styles EXCEPT ![field] = Len_(value, styles), ![auto] = FALSE]
      [] value.kind = "Keyword" /\ ToLowerSeq(value.word) = <<"auto">> ->
            [styles EXCEPT ![auto] = TRUE]
      [] OTHER -> styles

\* apply_declarations_with_parent, the body of the loop: one declaration applied
apply_declaration(styles, property_, value, parent_font_size) ==
    CASE property_ = <<"display">> ->
            IF value.kind = "Keyword" THEN [styles EXCEPT !.display = value.word] ELSE styles
      [] property_ = <<"font-size">> ->
            [styles EXCEPT !.font_size = FontSizeOf(value, styles, parent_font_size)]
      [] property_ = <<"font-weight">> ->
            CASE value.kind = "Keyword" ->
                    [styles EXCEPT !.font_weight =
                        IF value.word \in {<<"bold">>, <<"700">>, <<"800">>, <<"900">>}
                        THEN "Bold" ELSE "Normal"]
              [] value.kind = "Number" ->
                    [styles EXCEPT !.font_weight =
                        IF value.num >= 700 * Scale THEN "Bold" ELSE "Normal"]
              [] OTHER -> styles
      [] property_ = <<"font-style">> ->
            IF value.kind = "Keyword"
            THEN [styles EXCEPT !.font_style =
                    IF value.word \in {<<"italic">>, <<"oblique">>} THEN "Italic" ELSE "Normal"]
            ELSE styles
      [] property_ = <<"color">> ->
            IF value.kind = "Color" THEN [styles EXCEPT !.color = value.color] ELSE styles
      [] property_ \in {<<"background-color">>, <<"background">>} ->
            IF value.kind = "Color" THEN [styles EXCEPT !.background_color = value.color]
            ELSE styles
      [] property_ = <<"opacity">> ->
            IF value.kind = "Number"
            THEN [styles EXCEPT !.color.a = Mul(@, value.num),
                                !.background_color.a = Mul(@, value.num)]
            ELSE styles
      [] property_ = <<"margin">> ->
            CASE value.kind = "Length" ->
                    [styles EXCEPT !.margin_top = Len_(value, styles),
                                   !.margin_bottom = Len_(value, styles),
                                   !.margin_left = Len_(value, styles),
                                   !.margin_right = Len_(value, styles),
                                   !.margin_left_auto = FALSE, !.margin_right_auto = FALSE]
              [] IsKeyword(value, "auto") ->
                    [styles EXCEPT !.margin_left_auto = TRUE, !.margin_right_auto = TRUE]
              [] OTHER -> styles
      [] property_ = <<"margin-top">> ->
            IF value.kind = "Length" THEN [styles EXCEPT !.margin_top = Len_(value, styles)]
            ELSE styles
      [] property_ = <<"margin-bottom">> ->
            IF value.kind = "Length" THEN [styles EXCEPT !.margin_bottom = Len_(value, styles)]
            ELSE styles
      [] property_ = <<"margin-left">> -> MarginSide(value, styles, "margin_left", "margin_left_auto")
      [] property_ = <<"margin-right">> ->
            MarginSide(value, styles, "margin_right", "margin_right_auto")
      [] property_ = <<"padding">> ->
            IF value.kind = "Length"
            THEN [styles EXCEPT !.padding_top = Len_(value, styles),
                                !.padding_bottom = Len_(value, styles),
                                !.padding_left = Len_(value, styles),
                                !.padding_right = Len_(value, styles)]
            ELSE styles
      [] property_ = <<"padding-top">> ->
            IF value.kind = "Length" THEN [styles EXCEPT !.padding_top = Len_(value, styles)]
            ELSE styles
      [] property_ = <<"padding-bottom">> ->
            IF value.kind = "Length" THEN [styles EXCEPT !.padding_bottom = Len_(value, styles)]
            ELSE styles
      [] property_ = <<"padding-left">> ->
            IF value.kind = "Length" THEN [styles EXCEPT !.padding_left = Len_(value, styles)]
            ELSE styles
      [] property_ = <<"padding-right">> ->
            IF value.kind = "Length" THEN [styles EXCEPT !.padding_right = Len_(value, styles)]
            ELSE styles
      [] property_ = <<"text-align">> ->
            IF value.kind = "Keyword"
            THEN [styles EXCEPT !.text_align =
                    CASE value.word = <<"center">>  -> "Center"
                      [] value.word = <<"right">>   -> "Right"
                      [] value.word = <<"justify">> -> "Justify"
                      [] OTHER                      -> "Left"]
            ELSE styles
      [] property_ = <<"text-decoration">> ->
            IF value.kind = "Keyword"
            THEN [styles EXCEPT !.text_decoration =
                    CASE value.word = <<"underline">>    -> "Underline"
                      [] value.word = <<"line-through">> -> "LineThrough"
                      [] OTHER                           -> "None"]
            ELSE styles
      [] property_ = <<"line-height">> ->
            CASE value.kind = "Number" -> [styles EXCEPT !.line_height = value.num]
              [] value.kind = "Length" /\ styles.font_size # 0 ->
                    [styles EXCEPT !.line_height = Div(Len_(value, styles), styles.font_size)]
              [] value.kind = "Length" /\ styles.font_size = 0 ->
                    [styles EXCEPT !.line_height = "NaN"]
              [] OTHER -> styles
      [] property_ = <<"width">> -> WidthOf(value, styles)
      [] OTHER -> styles

\* apply_declarations_with_parent: the declarations applied in the order the map
\* iterates them
RECURSIVE apply_in_order(_, _, _, _)
apply_in_order(declarations, order, styles, parent_font_size) ==
    IF order = <<>> THEN styles
    ELSE apply_in_order(declarations, Tail(order),
            apply_declaration(styles, Head(order), declarations[Head(order)], parent_font_size),
            parent_font_size)

\* the orders in which a map of the given keys may iterate
RECURSIVE IterationOrders(_)
IterationOrders(keys) ==
    IF keys = {} THEN {<<>>}
    ELSE UNION {{<<k>> \o o : o \in IterationOrders(keys \ {k})} : k \in keys}

\* apply_declarations_with_parent on a freshly built map: every outcome its
\* iteration order can give
apply_declarations_with_parent(declarations, styles, parent_font_size) ==
    {apply_in_order(declarations, o, styles, parent_font_size) :
        o \in IterationOrders(DOMAIN declarations)}

\* HtmlRenderer::apply_tag_defaults
apply_tag_defaults(tag, styles) ==
    CASE tag \in {"div", "article", "aside", "footer", "header", "main", "nav", "section"} ->
            [styles EXCEPT !.display = <<"block">>]
      [] tag = "h1" ->
            [styles EXCEPT !.display = <<"block">>, !.font_size = base_font_size * 2,
                           !.font_weight = "Bold",
                           !.margin_top = (base_font_size * 2 * 67) \div 100,
                           !.margin_bottom = (base_font_size * 2 * 67) \div 100]
      [] tag = "p" ->
            [styles EXCEPT !.display = <<"block">>, !.margin_top = base_font_size,
                           !.margin_bottom = base_font_size]
      [] tag \in {"strong", "b"} -> [styles EXCEPT !.font_weight = "Bold"]
      [] tag \in {"em", "i"} -> [styles EXCEPT !.font_style = "Italic"]
      [] tag = "u" -> [styles EXCEPT !.text_decoration = "Underline"]
      [] tag = "a" ->
            [styles EXCEPT !.color = RenderRgb(26, 13, 171), !.text_decoration = "Underline"]
      [] tag = "code" ->
            [styles EXCEPT !.background_color = RenderRgb(245, 245, 245),
                           !.font_size = (base_font_size * 9) \div 10]
      [] tag \in {"script", "style", "head", "title", "meta", "link", "noscript", "template"} ->
            [styles EXCEPT !.display = <<"none">>]
      [] tag = "body" ->
            [styles EXCEPT !.display = <<"block">>, !.margin_top = 8 * Scale,
                           !.margin_bottom = 8 * Scale, !.margin_left = 8 * Scale,
                           !.margin_right = 8 * Scale]
      [] tag = "html" -> [styles EXCEPT !.display = <<"block">>]
      [] OTHER -> styles

\* HtmlRenderer::selector_matches; id is an Option, classes a sequence of words
selector_matches(selector_, tag, id, classes) ==
    LET selector == Trim(selector_) IN
    IF selector = <<"*">> THEN TRUE
    ELSE IF selector # <<>> /\ selector[1] = "#"
        THEN id = Some(SubSeq(selector, 2, Len(selector)))
    ELSE IF selector # <<>> /\ selector[1] = "."
        THEN SubSeq(selector, 2, Len(selector)) \in Range(classes)
    ELSE Len(selector) = 1 /\ ToLower(selector[1]) = ToLower(tag)

\* a parsed rule together with the order its declaration map iterates in
OrderedRule(rule, order) ==
    [selectors |-> rule.selectors, declarations |-> rule.declarations, order |-> order]

\* the style sheets a parsed rule list may be in memory: one iteration order per
\* rule's map
RECURSIVE OrderedSheets(_)
OrderedSheets(rules) ==
    IF rules = <<>> THEN {<<>>}
    ELSE {<<OrderedRule(Head(rules), o)>> \o rest :
            o \in IterationOrders(DOMAIN Head(rules).declarations),
            rest \in OrderedSheets(Tail(rules))}

\* apply_stylesheet_styles_with_parent, the loop over one rule's selectors
RECURSIVE apply_selectors(_, _, _, _, _, _, _)
apply_selectors(rule, selectors, tag, id, classes, styles, parent_font_size) ==
    IF selectors = <<>> THEN styles
    ELSE apply_selectors(rule, Tail(selectors), tag, id, classes,
            IF selector_matches(Head(selectors), tag, id, classes)
            THEN apply_in_order(rule.declarations, rule.order, styles, parent_font_size)
            ELSE styles,
            parent_font_size)

\* HtmlRenderer::apply_stylesheet_styles_with_parent
RECURSIVE apply_stylesheet_styles_with_parent(_, _, _, _, _, _)
apply_stylesheet_styles_with_parent(sheet, tag, id, classes, styles, parent_font_size) ==
    IF sheet = <<>> THEN styles
    ELSE apply_stylesheet_styles_with_parent(Tail(sheet), tag, id, classes,
            apply_selectors(Head(sheet), Head(sheet).selectors, tag, id, classes, styles,
                            parent_font_size),
            parent_font_size)

\* compute_styles, the loop over the page style sheets
RECURSIVE apply_page_stylesheets(_, _, _, _, _, _)
apply_page_stylesheets(sheets, tag, id, classes, styles, parent_font_size) ==
    IF sheets = <<>> THEN styles
    ELSE apply_page_stylesheets(Tail(sheets), tag, id, classes,
            apply_stylesheet_styles_with_parent(Head(sheets), tag, id, classes, styles,
                                                parent_font_size),
            parent_font_size)

\* HashMap::get on the attributes
attr(el, name) == IF name \in DOMAIN el.attributes THEN Some(el.attributes[name]) ELSE None

ElementClasses(el) ==
    IF attr(el, "class") = None THEN <<>> ELSE SplitWhitespace(el.attributes["class"])

\* compute_styles up to the page style sheets: inherited fields, tag defaults, the
\* default style sheet
StylesBeforePage(el, parent_styles) ==
    LET seeded == [DefaultStyles EXCEPT !.font_size = parent_styles.font_size,
                                        !.color = parent_styles.color,
                                        !.line_height = parent_styles.line_height,
                                        !.text_align = parent_styles.text_align]
        tagged == apply_tag_defaults(ToLower(el.tag_name), seeded) IN
    apply_stylesheet_styles_with_parent(default_stylesheet, el.tag_name, attr(el, "id"),
                                        ElementClasses(el), tagged, parent_styles.font_size)

\* compute_styles up to the inline style: the page style sheets applied as well
StylesBeforeInline(el, parent_styles) ==
    apply_page_stylesheets(page_stylesheets, el.tag_name, attr(el, "id"), ElementClasses(el),
                           StylesBeforePage(el, parent_styles), parent_styles.font_size)

\* HtmlRenderer::compute_styles: the styles it may return (the inline style is
\* parsed into a fresh map at every call)
compute_styles(el, parent_styles) ==
    LET styles == StylesBeforeInline(el, parent_styles) IN
    IF attr(el, "style") = None THEN {styles}
    ELSE apply_declarations_with_parent(parse_declarations(el.attributes["style"]), styles,
                                        parent_styles.font_size)

\* HtmlRenderer::determine_node_type
determine_node_type(tag, styles) ==
    CASE styles.display = <<"none">>   -> "Hidden"
      [] styles.display = <<"block">>  -> "Block"
      [] styles.display = <<"inline">> -> "Inline"
      [] OTHER -> IF ToLower(tag) \in {"div", "p", "h1", "h2", "h3", "ul", "ol", "li"}
                  THEN "Block" ELSE "Inline"

RenderNode(node_type, styles, children, text_, tag, href) ==
    [node_type |-> node_type, styles |-> styles, children |-> children, text |-> text_,
     tag |-> tag, href |-> href]

NotHidden(n) == n.node_type # "Hidden"

\* HtmlRenderer::render_node and render_element: the trees they may return
RECURSIVE render_node(_, _), render_children(_, _)
render_node(node, parent_styles) ==
    CASE node.kind = "Text" ->
            {RenderNode("Text", parent_styles, <<>>, node.text, "", None)}
      [] node.kind = "Comment" ->
            {RenderNode("Hidden", DefaultStyles, <<>>, <<>>, "", None)}
      [] node.kind = "Element" ->
            UNION {
                LET node_type == determine_node_type(node.tag_name, styles)
                    tag == ToLower(node.tag_name)
                    href == IF tag = "a" THEN attr(node, "href") ELSE None IN
                IF node_type = "Hidden"
                THEN {RenderNode("Hidden", styles, <<>>, <<>>, tag, None)}
                ELSE {RenderNode(node_type, styles, SelectSeq(kids, NotHidden), <<>>, tag, href) :
                        kids \in render_children(node.children, styles)}
                : styles \in compute_styles(node, parent_styles)}

\* render_element, the map over elem.children
render_children(children, styles) ==
    IF children = <<>> THEN {<<>>}
    ELSE {<<n>> \o rest : n \in render_node(Head(children), styles),
                          rest \in render_children(Tail(children), styles)}

\* the tree render leaves behind when it aborts
Aborted == RenderNode("Aborted", DefaultStyles, <<>>, <<>>, "", None)

\* HtmlRenderer::render_node aborts: compute_styles parses the style attribute of
\* every element it reaches, the children of a hidden element are not reached
RECURSIVE render_panics(_, _)
render_panics(node, parent_styles) ==
    /\ node.kind = "Element"
    /\ \/ attr(node, "style") # None /\ parse_declarations_panics(node.attributes["style"])
       \/ \E styles \in compute_styles(node, parent_styles) :
            /\ determine_node_type(node.tag_name, styles) # "Hidden"
            /\ \E i \in DOMAIN node.children : render_panics(node.children[i], styles)

\* main.rs, view: the width the page content is given from the body's styles
content_width(body_styles, window_width) ==
    IF body_styles.width_percent # None
    THEN [kind |-> "Fixed", px |-> Mul(window_width, body_styles.width_percent[1]) \div 100]
    ELSE IF body_styles.width # None THEN [kind |-> "Fixed", px |-> body_styles.width[1]]
    ELSE [kind |-> "Fill", px |-> 0]

\* ---- the documents and style sheets rendered

\* the elements the documents are built from: tag and style attribute
ElementKinds == <<
    [tag_name |-> "body",
     attributes |-> "style" :> <<"color", ":", " ", "red", ";", " ", "width", ":", " ", "600", "px">>],
    [tag_name |-> "div", attributes |-> "style" :> <<"font-size", ":", " ", "2", "em">>],
    [tag_name |-> "div",
     attributes |-> "style" :> <<"font-size", ":", " ", "32", "px", ";", " ",
                                 "margin-top", ":", " ", "1", "em">>],
    [tag_name |-> "code", attributes |-> "style" :> <<"font-size", ":", " ", "150", "%">>] >>

\* a document: the elements nested one in the other, a text in the innermost
RECURSIVE Chain(_)
Chain(kinds) ==
    IF kinds = <<>> THEN TextNode(<<"t">>)
    ELSE Element(ElementKinds[Head(kinds)].tag_name, ElementKinds[Head(kinds)].attributes,
                 <<Chain(Tail(kinds))>>)

\* the default style sheet, the rule of the built-in fallback that matches a tag of
\* the documents
DefaultCss ==
    <<"pre", ",", " ", "code", " ", "{", " ", "background", ":", " ", "#", "f5f5f5", ";", " ", "}">>

\* the page style sheets registered
SheetTexts == <<
    <<"div", ",", " ", "body", " ", "{", " ", "color", ":", " ", "blue", ";", " ",
      "width", ":", " ", "20", "%", " ", "}">>,
    <<"div", " ", "{", " ", "font-size", ":", " ", "0.5", "em", " ", "}">>,
    <<"body", " ", "{", " ", "width", ":", " ", "600", "px", " ", "}">> >>

MaxDepth == 3
MaxSheets == 2

RenderInit ==
    /\ default_stylesheet \in OrderedSheets(parse(DefaultCss))
    /\ page_stylesheets = <<>>
    /\ \E kinds \in SeqsUpTo(DOMAIN ElementKinds, MaxDepth) \ {<<>>} : document = Chain(kinds)
    /\ rendered = <<>>
    /\ previous = <<>>
    /\ HtmlIdle /\ CssIdle /\ LayoutIdle /\ SelectorIdle /\ PipelineIdle /\ FlattenIdle /\ BrowserIdle

\* HtmlRenderer::add_stylesheet, called before the document is rendered (main.rs,
\* load_page)
AddStylesheet ==
    /\ rendered = <<>>
    /\ Len(page_stylesheets) < MaxSheets
    /\ \E i \in DOMAIN SheetTexts :
        \E sheet \in OrderedSheets(parse(SheetTexts[i])) :
            page_stylesheets' = Append(page_stylesheets, sheet)
    /\ UNCHANGED <<rother, default_stylesheet, document, rendered, previous>>

\* HtmlRenderer::clear_stylesheets; what was rendered belongs to the former sheets
ClearStylesheets ==
    /\ page_stylesheets # <<>>
    /\ page_stylesheets' = <<>>
    /\ rendered' = <<>>
    /\ previous' = <<>>
    /\ UNCHANGED <<rother, default_stylesheet, document>>

\* HtmlRenderer::render, at most twice on the same inputs
Render ==
    /\ previous = <<>>
    /\ IF render_panics(document, DefaultStyles)
       THEN rendered' = Aborted
       ELSE \E tree \in render_node(document, DefaultStyles) : rendered' = tree
    /\ previous' = rendered
    /\ UNCHANGED <<rother, default_stylesheet, page_stylesheets, document>>

RenderNext == AddStylesheet \/ ClearStylesheets \/ Render

SpecRender == RenderInit /\ [][RenderNext]_vars

-----------------------------------------------------------------------------
(* ---- claims about style resolution *)

\* the nodes of the document with the render node and the parent styles of each
RECURSIVE Pairs(_, _, _)
Pairs(node, rnode, parent_styles) ==
    {[node |-> node, rnode |-> rnode, parent |-> parent_styles]}
    \cup IF node.kind = "Element" /\ Len(rnode.children) = Len(node.children)
         THEN UNION {Pairs(node.children[i], rnode.children[i], rnode.styles) :
                        i \in DOMAIN node.children}
         ELSE {}

Rendered == Pairs(document, rendered, DefaultStyles)

\* the declaration maps of a sheet whose rule matches the element, one per matching
\* selector, in the order they are applied
RECURSIVE MatchingMaps(_, _)
MatchingMaps(sheet, el) ==
    IF sheet = <<>> THEN <<>>
    ELSE LET hits == SelectSeq(Head(sheet).selectors,
                        LAMBDA sel : selector_matches(sel, el.tag_name, attr(el, "id"),
                                                      ElementClasses(el))) IN
         [i \in DOMAIN hits |-> Head(sheet).declarations] \o MatchingMaps(Tail(sheet), el)

InlineMap(el) ==
    IF attr(el, "style") = None THEN EmptyMap ELSE parse_declarations(el.attributes["style"])

\* the value of the last map that declares the property, None when none does
LastDeclared(maps, p) ==
    LET with == SelectSeq(maps, LAMBDA m : p \in DOMAIN m) IN
    IF with = <<>> THEN None ELSE Some(with[Len(with)][p])

\* the value a property resolves to in computed styles; the width is the one the
\* page is given
ResolvedValue(p, styles) ==
    CASE p = <<"color">>     -> styles.color
      [] p = <<"font-size">> -> styles.font_size
      [] p = <<"width">>     -> content_width(styles, viewport_width)

\* what the property resolves to when the declaration is the one that counts
DeclaredValue(p, value, parent_styles) ==
    ResolvedValue(p, apply_declaration(DefaultStyles, p, value, parent_styles.font_size))

CascadeProperties == {<<"color">>, <<"font-size">>, <<"width">>}

\* the page sheets that have a matching rule declaring the property
SheetsDeclaring(el, p) ==
    SelectSeq(page_stylesheets, LAMBDA sh : LastDeclared(MatchingMaps(sh, el), p) # None)

\* C1: a property declared in the inline style and in a matching rule resolves to
\* the inline value; a property declared by matching rules of two page sheets (and
\* not inline) resolves to the value of the sheet registered later.
C1_CascadeOrder ==
    rendered # <<>> =>
        \A e \in Rendered : e.node.kind = "Element" =>
            \A p \in CascadeProperties :
                LET inline == InlineMap(e.node)
                    sheets == SheetsDeclaring(e.node, p)
                    default == LastDeclared(MatchingMaps(default_stylesheet, e.node), p)
                    last == sheets[Len(sheets)] IN
                /\ (p \in DOMAIN inline /\ (sheets # <<>> \/ default # None))
                    => ResolvedValue(p, e.rnode.styles) = DeclaredValue(p, inline[p], e.parent)
                /\ (p \notin DOMAIN inline /\ Len(sheets) >= 2)
                    => ResolvedValue(p, e.rnode.styles)
                         = DeclaredValue(p, LastDeclared(MatchingMaps(last, e.node), p)[1],
                                         e.parent)

\* C2: two renders of the same document with the same style sheets return the same
\* tree.
C2_Deterministic ==
    (rendered # <<>> /\ previous # <<>>) => rendered = previous

\* the declaration maps applied to an element, in cascade order
CascadeMaps(el) ==
    MatchingMaps(default_stylesheet, el)
    \o Flatten([i \in DOMAIN page_stylesheets |-> MatchingMaps(page_stylesheets[i], el)])
    \o (IF attr(el, "style") = None THEN <<>> ELSE <<InlineMap(el)>>)

\* the tags apply_tag_defaults gives a font-size
TagDefaultFontSize == {"h1", "h2", "h3", "h4", "h5", "h6", "code", "pre"}

DeclaredBefore(style, p, q) ==
    /\ Find(style, p[1]) # 0 /\ Find(style, q[1]) # 0
    /\ Find(style, p[1]) < Find(style, q[1])

\* C12: an element whose style attribute declares a font-size and, after it, a
\* margin-top in em resolves the margin to the em multiple of the font-size that
\* declaration sets.
C12_EmAgainstAccumulated ==
    rendered # <<>> =>
        \A e \in Rendered :
            (/\ e.node.kind = "Element"
             /\ attr(e.node, "style") # None
             /\ DeclaredBefore(e.node.attributes["style"], <<"font-size">>, <<"margin-top">>)
             /\ InlineMap(e.node)[<<"margin-top">>].kind = "Length"
             /\ InlineMap(e.node)[<<"margin-top">>].unit = "em")
            => e.rnode.styles.margin_top
                 = Mul(DeclaredValue(<<"font-size">>, InlineMap(e.node)[<<"font-size">>], e.parent),
                       InlineMap(e.node)[<<"margin-top">>].num)

\* C13: an element whose font-size declaration is N% resolves to N/100 times its
\* parent's font-size.
C13_PercentFontSize ==
    rendered # <<>> =>
        \A e \in Rendered : e.node.kind = "Element" =>
            LET decl == LastDeclared(CascadeMaps(e.node), <<"font-size">>) IN
            (decl # None /\ decl[1].kind = "Percentage")
                => e.rnode.styles.font_size = Mul(e.parent.font_size, decl[1].num) \div 100

-----------------------------------------------------------------------------
(* ======================== selector matching ============================= *)

\* CssParser::selector_matches (css_parser.rs), the matcher of get_computed_style
css_selector_matches(selector_, tag, id, classes) ==
    LET selector == Trim(selector_)
        dot_pos == Find(selector, ".")
        hash_pos == Find(selector, "#")
        tag_is(part) == part = <<>> \/ (Len(part) = 1 /\ ToLower(part[1]) = ToLower(tag)) IN
    IF selector = <<"*">> THEN TRUE
    ELSE IF selector # <<>> /\ selector[1] = "#"
        THEN id = Some(SubSeq(selector, 2, Len(selector)))
    ELSE IF selector # <<>> /\ selector[1] = "."
        THEN SubSeq(selector, 2, Len(selector)) \in Range(classes)
    ELSE IF Len(selector) = 1 /\ ToLower(selector[1]) = ToLower(tag) THEN TRUE
    ELSE IF dot_pos # 0
        THEN /\ tag_is(SubSeq(selector, 1, dot_pos - 1))
             /\ SubSeq(selector, dot_pos + 1, Len(selector)) \in Range(classes)
    ELSE IF hash_pos # 0
        THEN /\ tag_is(SubSeq(selector, 1, hash_pos - 1))
             /\ id = Some(SubSeq(selector, hash_pos + 1, Len(selector)))
    ELSE FALSE

\* the selector texts matched, with the parts each is made of ("" for no such part)
SelectorTexts == <<
    [chars |-> <<"*">>,                  universal |-> TRUE,  type |-> "",    id |-> "",     class |-> ""],
    [chars |-> <<"#", "main">>,          universal |-> FALSE, type |-> "",    id |-> "main", class |-> ""],
    [chars |-> <<".", "card">>,          universal |-> FALSE, type |-> "",    id |-> "",     class |-> "card"],
    [chars |-> <<"div">>,                universal |-> FALSE, type |-> "div", id |-> "",     class |-> ""],
    [chars |-> <<" ", "DIV", " ">>,      universal |-> FALSE, type |-> "div", id |-> "",     class |-> ""],
    [chars |-> <<"div", ".", "card">>,   universal |-> FALSE, type |-> "div", id |-> "",     class |-> "card"],
    [chars |-> <<"div", "#", "main">>,   universal |-> FALSE, type |-> "div", id |-> "main", class |-> ""],
    [chars |-> <<"p", ".", "card">>,     universal |-> FALSE, type |-> "p",   id |-> "",     class |-> "card"] >>

\* the elements matched against: tag, id attribute, class attribute
SelectorTags == {"div", "DIV", "p"}
SelectorIds == {<<>>, <<"main">>, <<"x">>}
SelectorClasses == {<<>>, <<"card">>, <<"big", " ", "card">>, <<"big">>}

SelectorElement(tag, id, class) ==
    Element(tag,
            (IF id = <<>> THEN EmptyMap ELSE "id" :> id)
            @@ (IF class = <<>> THEN EmptyMap ELSE "class" :> class),
            <<>>)

SelectorInit ==
    /\ \E i \in DOMAIN SelectorTexts, tag \in SelectorTags, id \in SelectorIds,
          class \in SelectorClasses :
        sel_case = [selector |-> i, el |-> SelectorElement(tag, id, class)]
    /\ sel_result = <<>>
    /\ HtmlIdle /\ CssIdle /\ LayoutIdle /\ RendererIdle /\ PipelineIdle /\ FlattenIdle /\ BrowserIdle

\* the selector matched as compute_styles does (HtmlRenderer::selector_matches) and
\* as get_computed_style does (CssParser::selector_matches)
MatchSelector ==
    /\ sel_result = <<>>
    /\ LET el == sel_case.el
           chars == SelectorTexts[sel_case.selector].chars IN
       sel_result' =
          [cascade |-> selector_matches(chars, el.tag_name, attr(el, "id"), ElementClasses(el)),
           computed |-> css_selector_matches(chars, el.tag_name, attr(el, "id"),
                                             ElementClasses(el))]
    /\ UNCHANGED <<mother, sel_case>>

SelectorNext == MatchSelector

SpecSelector == SelectorInit /\ [][SelectorNext]_vars

\* every part of the selector matches the element
AllPartsMatch(sel, el) ==
    \/ sel.universal
    \/ /\ sel.type # "" => ToLower(sel.type) = ToLower(el.tag_name)
       /\ sel.id # "" => attr(el, "id") = Some(<<sel.id>>)
       /\ sel.class # "" => <<sel.class>> \in Range(ElementClasses(el))

\* C11: the matcher of the cascade says a selector matches exactly when all of its
\* parts (universal, type, id, class) match the element.
C11_SelectorMatching ==
    sel_result # <<>> =>
        (sel_result.cascade <=> AllPartsMatch(SelectorTexts[sel_case.selector], sel_case.el))

-----------------------------------------------------------------------------
(* ====== css crate: the style tree (src/css/src/lib.rs); paint crate ====== *)

\* css::SimpleSelector, css::Declaration, css::Rule
SimpleSelector(tag_name, id, class) == [tag_name |-> tag_name, id |-> id, class |-> class]
Declaration(name, value) == [name |-> name, value |-> value]
Rule(selectors, declarations) == [selectors |-> selectors, declarations |-> declarations]

\* HashMap::get on the attributes of an element
attributes_get(attributes, name) ==
    IF \E a \in attributes : a[1] = name
    THEN Some((CHOOSE a \in attributes : a[1] = name)[2])
    ELSE None

\* css::matches_simple_selector
matches_simple_selector(el, selector) ==
    IF selector.tag_name # None /\ selector.tag_name[1] # el.tag_name THEN FALSE
    ELSE IF selector.id # None /\ attributes_get(el.attributes, <<"id">>) # selector.id THEN FALSE
    ELSE IF selector.class # <<>>
    THEN /\ attributes_get(el.attributes, <<"class">>) # None
         /\ \A required_class \in Range(selector.class) :
                required_class
                    \in Range(SplitWhitespace(attributes_get(el.attributes, <<"class">>)[1]))
    ELSE TRUE

\* css::matches
matches(el, rule) ==
    \E i \in DOMAIN rule.selectors : matches_simple_selector(el, rule.selectors[i])

\* css::specified_values, the inner loop: the declarations of a rule inserted in order
RECURSIVE insert_declarations(_, _)
insert_declarations(values, declarations) ==
    IF declarations = <<>> THEN values
    ELSE insert_declarations(Put(values, Head(declarations).name, Head(declarations).value),
                             Tail(declarations))

\* css::specified_values
RECURSIVE specified_values(_, _, _)
specified_values(el, rules, values) ==
    IF rules = <<>> THEN values
    ELSE specified_values(el, Tail(rules),
            IF matches(el, Head(rules))
            THEN insert_declarations(values, Head(rules).declarations)
            ELSE values)

\* css::style_tree
RECURSIVE style_tree(_, _)
style_tree(root, stylesheet_) ==
    StyledNode(root,
               IF root.kind = "Element" THEN specified_values(root, stylesheet_, EmptyMap)
               ELSE EmptyMap,
               [i \in DOMAIN root.children |-> style_tree(root.children[i], stylesheet_)])

\* a u32 colour 0xAARRGGBB, written as its four bytes
Argb(a, r, g, b) == [a |-> a, r |-> r, g |-> g, b |-> b]

\* paint::DisplayCommand
SolidColor(color, rect) == [kind |-> "SolidColor", text |-> <<>>, rect |-> rect, color |-> color]
Text(data, rect, color) == [kind |-> "Text", text |-> data, rect |-> rect, color |-> color]

\* paint::get_color
get_color(layout_box, name) ==
    LET value == property(layout_box.style_node, name) IN
    IF value = <<>> THEN None
    ELSE IF value[1].kind = "ColorValue"
    THEN Some(Argb(value[1].rgba[4], value[1].rgba[1], value[1].rgba[2], value[1].rgba[3]))
    ELSE IF value[1].kind = "Keyword"
    THEN CASE value[1].word = "black" -> Some(Argb(255, 0, 0, 0))
           [] value[1].word = "white" -> Some(Argb(255, 255, 255, 255))
           [] value[1].word = "red"   -> Some(Argb(255, 255, 0, 0))
           [] value[1].word = "blue"  -> Some(Argb(255, 0, 0, 255))
           [] value[1].word \in {"grey", "gray"} -> Some(Argb(255, 128, 128, 128))
           [] OTHER -> None
    ELSE None

\* BoxDimensions::border_box
border_box(d) ==
    Rect(d.content.x - d.padding.left - d.border.left,
         d.content.y - d.padding.top - d.border.top,
         d.content.width + d.padding.left + d.padding.right + d.border.left + d.border.right,
         d.content.height + d.padding.top + d.padding.bottom + d.border.top + d.border.bottom)

\* paint::render_background
render_background(list, layout_box) ==
    IF get_color(layout_box, "background") # None
    THEN Append(list, SolidColor(get_color(layout_box, "background")[1],
                                 border_box(layout_box.dimensions)))
    ELSE list

\* paint::render_text
render_text(list, layout_box) ==
    IF layout_box.style_node.node.kind = "Text"
    THEN Append(list, Text(layout_box.style_node.node.data, layout_box.dimensions.content,
                           unwrap_or(get_color(layout_box, "color"), Argb(255, 0, 0, 0))))
    ELSE list

\* mutant: the children rendered before the box itself
RECURSIVE render_children_first(_, _), render_boxes_children_first(_, _)
render_children_first(list, layout_box) ==
    render_text(render_background(render_boxes_children_first(list, layout_box.children),
                                  layout_box),
                layout_box)
render_boxes_children_first(list, boxes) ==
    IF boxes = <<>> THEN list
    ELSE render_boxes_children_first(render_children_first(list, Head(boxes)), Tail(boxes))

\* paint::render_layout_box (render_borders pushes nothing)
RECURSIVE render_layout_box(_, _), render_layout_boxes(_, _)
render_layout_box(list, layout_box) ==
    render_layout_boxes(render_text(render_background(list, layout_box), layout_box),
                        layout_box.children)

\* render_layout_box, the loop over layout_box.children
render_layout_boxes(list, boxes) ==
    IF boxes = <<>> THEN list
    ELSE render_layout_boxes(render_layout_box(list, Head(boxes)), Tail(boxes))

\* paint::build_display_list
build_display_list(layout_root) == render_layout_box(<<>>, layout_root)

\* ---- the documents and style sheets of the pipeline

Class(name) == {<<<<"class">>, <<name>>>>}

\* the nodes the children of the root are taken from
PaintNodes == <<
    text(<<"t">>),
    elem(<<"div">>, Class("card"), <<text(<<"A">>)>>),
    elem(<<"div">>, Class("hidden"), <<elem(<<"div">>, Class("card"), <<text(<<"B">>)>>)>>),
    elem(<<"p">>, {<<<<"id">>, <<"main">>>>}, <<text(<<"C">>)>>) >>

\* what css::parse returns for
\*   .page { background: white; }
\*   .card { background: red; color: blue; height: 10px; }
\*   .hidden { display: none; background: black; }
\*   p#main { background: grey; margin-left: 20px; }
\* and for
\*   div, p { color: red; }
\*   .card { height: 20px; background: blue; }
\*   div.hidden { display: none; }
Stylesheets == {
    <<Rule(<<SimpleSelector(None, None, <<<<"page">>>>)>>,
           <<Declaration("background", VColorValue(255, 255, 255, 255))>>),
      Rule(<<SimpleSelector(None, None, <<<<"card">>>>)>>,
           <<Declaration("background", VColorValue(255, 0, 0, 255)),
             Declaration("color", VColorValue(0, 0, 255, 255)),
             Declaration("height", VLength(10))>>),
      Rule(<<SimpleSelector(None, None, <<<<"hidden">>>>)>>,
           <<Declaration("display", VKeyword("none")),
             Declaration("background", VColorValue(0, 0, 0, 255))>>),
      Rule(<<SimpleSelector(Some(<<"p">>), Some(<<"main">>), <<>>)>>,
           <<Declaration("background", VKeyword("grey")),
             Declaration("margin-left", VLength(20))>>)>>,
    <<Rule(<<SimpleSelector(Some(<<"div">>), None, <<>>), SimpleSelector(Some(<<"p">>), None, <<>>)>>,
           <<Declaration("color", VColorValue(255, 0, 0, 255))>>),
      Rule(<<SimpleSelector(None, None, <<<<"card">>>>)>>,
           <<Declaration("height", VLength(20)),
             Declaration("background", VColorValue(0, 0, 255, 255))>>),
      Rule(<<SimpleSelector(Some(<<"div">>), None, <<<<"hidden">>>>)>>,
           <<Declaration("display", VKeyword("none"))>>)>> }

MaxNodes == 2

PipelineInit ==
    /\ \E kids \in SeqsUpTo(DOMAIN PaintNodes, MaxNodes) :
        dom_root = elem(<<"div">>, Class("page"), [i \in DOMAIN kids |-> PaintNodes[kids[i]]])
    /\ core_stylesheet \in Stylesheets
    /\ display_list = <<>>
    /\ styled = <<>>
    /\ \E r \in Viewports : containing = [DefaultDimensions EXCEPT !.content = r]
    /\ layout = <<>>
    /\ lpc = "style"
    /\ HtmlIdle /\ CssIdle /\ RendererIdle /\ SelectorIdle /\ FlattenIdle /\ BrowserIdle

\* css::style_tree on the root
StyleTree ==
    /\ lpc = "style"
    /\ styled' = style_tree(dom_root, core_stylesheet)
    /\ lpc' = "start"
    /\ UNCHANGED <<pother, pvars, containing, layout>>

\* paint::build_display_list on the layout tree
BuildDisplayList ==
    /\ lpc = "done"
    /\ display_list' = build_display_list(layout)
    /\ lpc' = "painted"
    /\ UNCHANGED <<pother, dom_root, core_stylesheet, styled, containing, layout>>

PipelineNext == StyleTree \/ LayoutTree \/ BuildDisplayList

SpecPipeline == PipelineInit /\ [][PipelineNext]_vars

-----------------------------------------------------------------------------
(* ---- claims about the style tree, the layout of it and the display list *)

IsDisplayNone(node) ==
    "display" \in DOMAIN node.specified_values
    /\ node.specified_values["display"] = VKeyword("none")

\* the styled nodes that are visible: not display none and under no such node
RECURSIVE VisibleCount(_)
VisibleCount(node) ==
    IF IsDisplayNone(node) THEN 0
    ELSE 1 + SumSeq([i \in DOMAIN node.children |-> VisibleCount(node.children[i])])

RECURSIVE BoxCount(_)
BoxCount(box) == 1 + SumSeq([i \in DOMAIN box.children |-> BoxCount(box.children[i])])

\* C15: the layout tree has no box for a styled node whose display is none nor for
\* a descendant of one: it has exactly one box per visible styled node.
C15_DisplayNoneExcluded ==
    lpc \in {"done", "painted"} =>
        /\ \A e \in AllBoxes : ~IsDisplayNone(e.box.style_node)
        /\ BoxCount(layout) = VisibleCount(styled)

\* the texts directly inside an element
TextsIn(node) == {node.children[i].data : i \in {j \in DOMAIN node.children :
                                                    node.children[j].kind = "Text"}}

\* C16: no box of the layout tree refers to a text node, and every Text command is
\* painted in the content rect of the box of the element that contains the text.
C16_NoTextBoxes ==
    /\ lpc \in {"done", "painted"} =>
        \A e \in AllBoxes : e.box.style_node.node.kind # "Text"
    /\ lpc = "painted" =>
        \A i \in DOMAIN display_list : display_list[i].kind = "Text" =>
            \E e \in AllBoxes :
                /\ e.box.style_node.node.kind = "Element"
                /\ display_list[i].text \in TextsIn(e.box.style_node.node)
                /\ display_list[i].rect = e.box.dimensions.content

\* the paths of the boxes of a layout tree: the child indices from the root down
RECURSIVE BoxPaths(_)
BoxPaths(box) ==
    {<<>>} \cup UNION {{<<i>> \o q : q \in BoxPaths(box.children[i])} : i \in DOMAIN box.children}

RECURSIVE BoxAt(_, _)
BoxAt(box, path) ==
    IF path = <<>> THEN box ELSE BoxAt(box.children[Head(path)], Tail(path))

\* document order of two paths: a box before its descendants, a subtree before the
\* subtrees of the later siblings
RECURSIVE DocBefore(_, _)
DocBefore(p, q) ==
    IF p = <<>> THEN q # <<>>
    ELSE IF q = <<>> THEN FALSE
    ELSE IF Head(p) = Head(q) THEN DocBefore(Tail(p), Tail(q))
    ELSE Head(p) < Head(q)

\* the paths of the layout tree in document order
DocOrder ==
    LET paths == BoxPaths(layout) IN
    [i \in 1..Cardinality(paths) |->
        CHOOSE p \in paths : Cardinality({q \in paths : DocBefore(q, p)}) = i - 1]

\* the commands a box gives rise to by itself
OwnCommands(box) == render_text(render_background(<<>>, box), box)

\* C19: the display list is the commands of the boxes in pre-order document order:
\* those of a box before those of its descendants, those of a subtree before those
\* of the later siblings.
C19_PreOrder ==
    lpc = "painted" =>
        display_list = Flatten([i \in DOMAIN DocOrder |-> OwnCommands(BoxAt(layout, DocOrder[i]))])

\* the root, a card with its text and a paragraph painted: the root's SolidColor
\* first, then the card's and its text, then the paragraph's
C19_Witness ==
    /\ lpc = "painted"
    /\ Len(layout.children) = 2
    /\ Len(display_list) = 5
    /\ display_list[1] = SolidColor(Argb(255, 255, 255, 255), border_box(layout.dimensions))
    /\ display_list[2] = SolidColor(Argb(255, 255, 0, 0),
                                    border_box(layout.children[1].dimensions))
    /\ display_list[3].kind = "Text"
    /\ display_list[3].text = <<"A">>
    /\ display_list[4] = SolidColor(Argb(255, 128, 128, 128),
                                    border_box(layout.children[2].dimensions))
    /\ display_list[5].text = <<"C">>

\* the boxes of the text nodes, each with the colour the element that contains the
\* text declares (None when it declares none) and whether an element around it
\* declares one
RECURSIVE TextBoxes(_, _, _)
TextBoxes(box, container_color, any_color) ==
    (IF box.style_node.node.kind = "Text"
     THEN {[box |-> box, container_color |-> container_color, any_color |-> any_color]}
     ELSE {})
    \cup UNION {TextBoxes(box.children[i], get_color(box, "color"),
                          any_color \/ get_color(box, "color") # None) :
                    i \in DOMAIN box.children}

\* C20: the Text command of a text carries the colour declared for the element
\* that contains the text, and opaque black when no element around it declares one.
C20_TextColor ==
    lpc = "painted" =>
        \A e \in TextBoxes(layout, None, FALSE) :
            \E i \in DOMAIN display_list :
                /\ display_list[i].kind = "Text"
                /\ display_list[i].text = e.box.style_node.node.data
                /\ display_list[i].rect = e.box.dimensions.content
                /\ e.container_color # None => display_list[i].color = e.container_color[1]
                /\ ~e.any_color => display_list[i].color = Argb(255, 0, 0, 0)

-----------------------------------------------------------------------------
(* ============ flatten_render_tree (src/src/parser/renderer.rs) =========== *)

\* renderer::StyledText
StyledText(text_, styles, is_block, depth, href) ==
    [text |-> text_, styles |-> styles, is_block |-> is_block, depth |-> depth, href |-> href]

\* mutant: the link target of the node alone
own_href(node, parent_href) == node.href

\* flatten_node: node.href.as_deref().or(parent_href)
current_href(node, parent_href) == IF node.href # None THEN node.href ELSE parent_href

\* str::ends_with('\n'); the list bullet is the atom "bullet"
ends_with_newline(text_) == text_ # <<>> /\ text_[Len(text_)] = "\n"

\* renderer::flatten_node
RECURSIVE flatten_node(_, _, _, _), flatten_children(_, _, _, _)
flatten_node(node, result, depth, parent_href) ==
    LET href == current_href(node, parent_href)
        marker == StyledText(<<"\n">>, node.styles, TRUE, depth, None) IN
    CASE node.node_type = "Hidden" -> result
      [] node.node_type = "Text" ->
            IF Trim(node.text) # <<>>
            THEN Append(result, StyledText(node.text, node.styles, FALSE, depth, href))
            ELSE result
      [] node.node_type \in {"Block", "ListItem"} ->
            LET led == IF result # <<>> /\ ~ends_with_newline(result[Len(result)].text)
                       THEN Append(result, marker) ELSE result
                bulleted == IF node.node_type = "ListItem"
                            THEN Append(led, StyledText(<<"bullet", " ">>, node.styles, FALSE, depth, None))
                            ELSE led IN
            Append(flatten_children(node.children, bulleted, depth + 1, href), marker)
      [] OTHER -> flatten_children(node.children, result, depth, href)

\* flatten_node, the loops over node.children
flatten_children(children, result, depth, href) ==
    IF children = <<>> THEN result
    ELSE flatten_children(Tail(children), flatten_node(Head(children), result, depth, href),
                          depth, href)

\* renderer::flatten_render_tree
flatten_render_tree(node) == flatten_node(node, <<>>, 0, None)

\* ---- the documents flattened

Anchor(href, children) == Element("a", "href" :> href, children)
Block(children) == Element("div", EmptyMap, children)

\* the subtrees the children of the root are taken from
FlattenNodes == <<
    TextNode(<<"t">>),
    TextNode(<<" ">>),
    Block(<<TextNode(<<"t">>)>>),
    Block(<<Block(<<TextNode(<<"t">>)>>)>>),
    Block(<<>>),
    Anchor(<<"x">>, <<TextNode(<<"t">>)>>),
    Anchor(<<"x">>, <<Anchor(<<"y">>, <<TextNode(<<"u">>)>>), TextNode(<<"t">>)>>),
    Element("a", EmptyMap, <<TextNode(<<"t">>)>>),
    Anchor(<<"x">>, <<Block(<<TextNode(<<"t">>)>>)>>),
    Anchor(<<"x">>, <<Element("a", EmptyMap, <<TextNode(<<"t">>)>>)>>),
    Element("script", EmptyMap, <<TextNode(<<"t">>)>>),
    Element("div", "style" :> <<"color", ":", " ", "#", "u00E9a">>, <<TextNode(<<"t">>)>>),
    Element("div", "style" :> <<"color", ":", " ", "#", "zu00E9">>, <<TextNode(<<"t">>)>>) >>

MaxFlattenChildren == 2

FlattenInit ==
    /\ default_stylesheet \in OrderedSheets(parse(DefaultCss))
    /\ page_stylesheets = <<>>
    /\ \E kids \in SeqsUpTo(DOMAIN FlattenNodes, MaxFlattenChildren) :
        document = Block([i \in DOMAIN kids |-> FlattenNodes[kids[i]]])
    /\ rendered = <<>>
    /\ previous = <<>>
    /\ styled_content = <<>>
    /\ HtmlIdle /\ CssIdle /\ LayoutIdle /\ SelectorIdle /\ PipelineIdle /\ BrowserIdle

\* flatten_render_tree on the tree render returned (main.rs, load_page)
FlattenRenderTree ==
    /\ rendered # <<>>
    /\ rendered # Aborted
    /\ styled_content = <<>>
    /\ styled_content' = <<flatten_render_tree(rendered)>>
    /\ UNCHANGED <<fother>>

FlattenNext == Render \/ FlattenRenderTree

SpecFlatten == FlattenInit /\ [][FlattenNext]_vars

-----------------------------------------------------------------------------
(* ---- claims about the styled runs *)

IsNewlineMarker(run) == run.text = <<"\n">>

\* C21: in the sequence flatten_render_tree returns no two newline markers are
\* adjacent.
C21_NewlinesCollapsed ==
    styled_content # <<>> =>
        \A i \in 1..(Len(styled_content[1]) - 1) :
            ~(IsNewlineMarker(styled_content[1][i]) /\ IsNewlineMarker(styled_content[1][i + 1]))

\* the tags apply_tag_defaults hides
HiddenTags == {"script", "style", "head", "title", "meta", "link", "noscript", "template"}

\* the non-blank visible texts of a document in document order, each with the href
\* of the nearest <a> around it that has one (None when there is none); hrefs holds
\* the hrefs of the enclosing <a> elements, outermost first
RECURSIVE LinkedTexts(_, _)
LinkedTexts(node, hrefs) ==
    IF node.kind = "Text"
    THEN IF Trim(node.text) # <<>>
         THEN <<[text |-> node.text,
                 href |-> IF hrefs = <<>> THEN None ELSE Some(hrefs[Len(hrefs)])]>>
         ELSE <<>>
    ELSE IF ToLower(node.tag_name) \in HiddenTags THEN <<>>
    ELSE LET inner == IF ToLower(node.tag_name) = "a" /\ "href" \in DOMAIN node.attributes
                      THEN Append(hrefs, node.attributes["href"]) ELSE hrefs IN
         Flatten([i \in DOMAIN node.children |-> LinkedTexts(node.children[i], inner)])

\* the text runs of the flattened content, as text and link target
TextRuns ==
    LET runs == SelectSeq(styled_content[1], LAMBDA r : ~r.is_block) IN
    [i \in DOMAIN runs |-> [text |-> runs[i].text, href |-> runs[i].href]]

\* C22: every text run carries the href of the nearest <a> element around its text
\* that has an href (an inner one overriding an outer one) and none when no <a href>
\* encloses it; the newline markers carry none.
C22_LinkPropagation ==
    styled_content # <<>> =>
        /\ TextRuns = LinkedTexts(document, <<>>)
        /\ \A i \in DOMAIN styled_content[1] :
            styled_content[1][i].is_block => styled_content[1][i].href = None

\* <a href=x><a href=y>u</a>t</a> and a text outside flattened: u links to y, t
\* inside to x, the text outside to nothing
C22_Witness ==
    /\ styled_content # <<>>
    /\ document = Block(<<FlattenNodes[7], FlattenNodes[1]>>)
    /\ TextRuns = <<[text |-> <<"u">>, href |-> Some(<<"y">>)],
                    [text |-> <<"t">>, href |-> Some(<<"x">>)],
                    [text |-> <<"t">>, href |-> None]>>

\* C23: HtmlRenderer::render returns a render tree for every document: it never aborts
C23_RenderTotal == rendered # <<>> => rendered # Aborted

-----------------------------------------------------------------------------
(* ======================= the browser window (main.rs) ================== *)

NewTabUrl == "faga://newtab"

\* LoadingState
Idle == [kind |-> "Idle", message |-> [kind |-> "", status |-> 0]]
Loading == [kind |-> "Loading", message |-> [kind |-> "", status |-> 0]]
Loaded == [kind |-> "Loaded", message |-> [kind |-> "", status |-> 0]]
Error(message) == [kind |-> "Error", message |-> message]

\* PageContent; styled_content stands for the runs of the page fetched from a URL
PageContent(document_title, styled_content_) ==
    [document_title |-> document_title, styled_content |-> styled_content_]

\* Tab::new
Tab_new(id) ==
    [id |-> id, title |-> "New Tab", url |-> NewTabUrl, loading_state |-> Idle,
     content |-> None, history |-> <<NewTabUrl>>, history_index |-> 0]

can_go_back(tab) == tab.history_index > 0

\* history.len().saturating_sub(1)
can_go_forward(tab) ==
    tab.history_index < (IF Len(tab.history) = 0 THEN 0 ELSE Len(tab.history) - 1)

\* Tab::go_back: the tab afterwards (the URL returned is its history entry)
go_back(tab) ==
    IF can_go_back(tab) THEN [tab EXCEPT !.history_index = tab.history_index - 1] ELSE tab

\* Tab::go_forward
go_forward(tab) ==
    IF can_go_forward(tab) THEN [tab EXCEPT !.history_index = tab.history_index + 1] ELSE tab

\* Tab::navigate_to
navigate_to(tab, url) ==
    LET history == Append(SubSeq(tab.history, 1, tab.history_index + 1), url) IN
    [tab EXCEPT !.history = history, !.history_index = Len(history) - 1, !.url = url]

\* mutant: every status from 200 on counts as a success
is_success_from_200(status) == status >= 200

\* Response::is_success
is_success(status) == status >= 200 /\ status < 300

\* the results of the future load_page builds
Ok(content) == [ok |-> TRUE, content |-> content, error |-> [kind |-> "", status |-> 0]]
Err(kind, status) ==
    [ok |-> FALSE, content |-> PageContent("", <<>>), error |-> [kind |-> kind, status |-> status]]

\* FagaBrowser::load_page: the command returned; an internal URL resolves without a request
load_page(tab_id, url) ==
    IF url = NewTabUrl
    THEN [tab_id |-> tab_id, url |-> url, stage |-> "ready", status |-> 0, requests |-> 0,
          parsed |-> FALSE, result |-> Ok(PageContent("New Tab", <<>>))]
    ELSE [tab_id |-> tab_id, url |-> url, stage |-> "issued", status |-> 0, requests |-> 0,
          parsed |-> FALSE, result |-> Err("", 0)]

\* ---- the inputs

\* what the user types in the address bar
UrlInputs == {"b.test"}

\* Message::Navigate: the URL made from the address bar
NavigateUrl(text_) ==
    CASE text_ \in {"https://a.test", "https://b.test", NewTabUrl} -> text_
      [] text_ = "b.test" -> "https://b.test"
      [] OTHER -> "https://www.google.com/search?q="

\* the links clicked: absolute URLs, which resolve_url returns unchanged
Hrefs == {"https://a.test"}

\* the title element of the page a URL serves
TitleOf(url) == IF url = "https://a.test" THEN "A" ELSE ""

\* tab.url.replace("https://", "").replace("http://", "")
StripScheme(url) ==
    CASE url = "https://a.test" -> "a.test"
      [] url = "https://b.test" -> "b.test"
      [] url = "https://www.google.com/search?q=" -> "www.google.com/search?q="
      [] OTHER -> url

\* the status codes the server answers with
Statuses == {299, 300}

\* the x positions of the pointer over the tab bar
DragXs == {0, 20, 200}

TAB_WIDTH == 180
DRAG_THRESHOLD == 10

MaxTabs == 2
MaxLoads == 3

\* ---- update

ActiveTab == tabs[active_tab + 1]
HasActiveTab == active_tab < Len(tabs)
TabPos(id) == {i \in DOMAIN tabs : tabs[i].id = id}
ShownUrl(tab) == IF tab.url = NewTabUrl THEN "" ELSE tab.url

\* the active tab replaced by tab, and the command load_page(tab.id, url) issued
StartLoad(tab, url) ==
    /\ tabs' = [tabs EXCEPT ![active_tab + 1] = [tab EXCEPT !.loading_state = Loading]]
    /\ loads' = Append(loads, load_page(tab.id, url))

BrowserInit ==
    /\ tabs = <<Tab_new(0)>>
    /\ active_tab = 0
    /\ next_tab_id = 1
    /\ url_input = ""
    /\ dragging_tab = <<>>
    /\ loads = <<>>
    /\ window = "open"
    /\ HtmlIdle /\ CssIdle /\ LayoutIdle /\ RendererIdle /\ SelectorIdle /\ PipelineIdle /\ FlattenIdle

\* Message::UrlInputChanged
UrlInputChanged ==
    /\ window = "open"
    /\ \E url \in UrlInputs : url_input' = url
    /\ UNCHANGED <<bother, tabs, active_tab, next_tab_id, dragging_tab, loads, window>>

\* Message::Navigate
Navigate ==
    /\ window = "open" /\ Len(loads) < MaxLoads
    /\ HasActiveTab
    /\ StartLoad(navigate_to(ActiveTab, NavigateUrl(url_input)), NavigateUrl(url_input))
    /\ UNCHANGED <<bother, active_tab, next_tab_id, url_input, dragging_tab, window>>

\* Message::GoBack
GoBack ==
    /\ window = "open" /\ Len(loads) < MaxLoads
    /\ HasActiveTab /\ can_go_back(ActiveTab)
    /\ LET tab == go_back(ActiveTab)
           url == tab.history[tab.history_index + 1] IN
        StartLoad(tab, url) /\ url_input' = url
    /\ UNCHANGED <<bother, active_tab, next_tab_id, dragging_tab, window>>

\* Message::GoForward
GoForward ==
    /\ window = "open" /\ Len(loads) < MaxLoads
    /\ HasActiveTab /\ can_go_forward(ActiveTab)
    /\ LET tab == go_forward(ActiveTab)
           url == tab.history[tab.history_index + 1] IN
        StartLoad(tab, url) /\ url_input' = url
    /\ UNCHANGED <<bother, active_tab, next_tab_id, dragging_tab, window>>

\* Message::Refresh
Refresh ==
    /\ window = "open" /\ Len(loads) < MaxLoads
    /\ HasActiveTab
    /\ StartLoad(ActiveTab, ActiveTab.url)
    /\ UNCHANGED <<bother, active_tab, next_tab_id, url_input, dragging_tab, window>>

\* Message::OpenShortcut
OpenShortcut ==
    /\ window = "open" /\ Len(loads) < MaxLoads
    /\ HasActiveTab
    /\ \E href \in Hrefs : StartLoad(navigate_to(ActiveTab, href), href) /\ url_input' = href
    /\ UNCHANGED <<bother, active_tab, next_tab_id, dragging_tab, window>>

\* Message::NewTab
NewTab ==
    /\ window = "open" /\ next_tab_id < MaxTabs
    /\ tabs' = Append(tabs, Tab_new(next_tab_id))
    /\ active_tab' = Len(tabs') - 1
    /\ next_tab_id' = next_tab_id + 1
    /\ url_input' = ""
    /\ UNCHANGED <<bother, dragging_tab, loads, window>>

\* Message::CloseTab
CloseTab ==
    /\ window = "open"
    /\ \E id \in 0..(next_tab_id - 1) :
        IF Len(tabs) > 1
        THEN /\ TabPos(id) # {}
             /\ LET at == CHOOSE i \in TabPos(id) : TRUE IN
                 tabs' = SubSeq(tabs, 1, at - 1) \o SubSeq(tabs, at + 1, Len(tabs))
             /\ active_tab' = IF active_tab >= Len(tabs') THEN Len(tabs') - 1 ELSE active_tab
             /\ UNCHANGED window
        ELSE window' = "closed" /\ UNCHANGED <<tabs, active_tab>>
    /\ UNCHANGED <<bother, next_tab_id, url_input, dragging_tab, loads>>

\* Message::SelectTab
SelectTab ==
    /\ window = "open"
    /\ \E index \in 0..(Len(tabs) - 1) :
        /\ active_tab' = index
        /\ url_input' = ShownUrl(tabs[index + 1])
    /\ UNCHANGED <<bother, tabs, next_tab_id, dragging_tab, loads, window>>

\* load_page, the future: client.get and the check of the status
Fetch ==
    /\ \E k \in DOMAIN loads :
        /\ loads[k].stage = "issued"
        /\ \/ loads' = [loads EXCEPT ![k].requests = @ + 1, ![k].stage = "ready",
                                     ![k].result = Err("Request failed", 0)]
           \/ \E status \in Statuses :
                loads' = [loads EXCEPT
                    ![k].requests = @ + 1,
                    ![k].status = status,
                    ![k].stage = IF is_success(status) THEN "responded" ELSE "ready",
                    ![k].result = IF is_success(status) THEN @ ELSE Err("HTTP Error", status)]
    /\ UNCHANGED <<bother, tabs, active_tab, next_tab_id, url_input, dragging_tab, window>>

\* load_page, the future: HtmlParser::parse, render and flatten of the response body
ParseAndRender ==
    /\ \E k \in DOMAIN loads :
        /\ loads[k].stage = "responded"
        /\ loads' = [loads EXCEPT
                ![k].parsed = TRUE,
                ![k].stage = "ready",
                ![k].result = Ok(PageContent(TitleOf(loads[k].url), <<loads[k].url>>))]
    /\ UNCHANGED <<bother, tabs, active_tab, next_tab_id, url_input, dragging_tab, window>>

\* Message::PageLoaded, for the futures that completed, in any order
PageLoaded ==
    /\ window = "open"
    /\ \E k \in DOMAIN loads :
        /\ loads[k].stage = "ready"
        /\ loads' = [loads EXCEPT ![k].stage = "handled"]
        /\ LET result == loads[k].result
               found == TabPos(loads[k].tab_id) IN
           IF found = {} THEN UNCHANGED tabs
           ELSE LET i == CHOOSE j \in found : TRUE
                    tab == tabs[i] IN
                tabs' = [tabs EXCEPT ![i] =
                    IF result.ok
                    THEN [tab EXCEPT
                            !.title = IF result.content.document_title = ""
                                      THEN StripScheme(tab.url)
                                      ELSE result.content.document_title,
                            !.content = Some(result.content),
                            !.loading_state = Loaded]
                    ELSE [tab EXCEPT !.loading_state = Error(result.error)]]
    /\ UNCHANGED <<bother, active_tab, next_tab_id, url_input, dragging_tab, window>>

\* f32::abs
Abs(x) == IF x < 0 THEN -x ELSE x

\* DragState
DragState(tab_index, start_x, current_x, offset_x, is_dragging) ==
    [tab_index |-> tab_index, start_x |-> start_x, current_x |-> current_x,
     offset_x |-> offset_x, is_dragging |-> is_dragging]

\* Vec::swap on 0-based positions
Swap(s, i, j) == [s EXCEPT ![i + 1] = s[j + 1], ![j + 1] = s[i + 1]]

\* Message::TabDragStart
TabDragStart ==
    /\ window = "open"
    /\ \E index \in 0..(Len(tabs) - 1), x \in DragXs :
        dragging_tab' = <<DragState(index, x, x, 0, FALSE)>>
    /\ UNCHANGED <<bother, tabs, active_tab, next_tab_id, url_input, loads, window>>

\* Message::TabDragMove
TabDragMove ==
    /\ window = "open"
    /\ dragging_tab # <<>>
    /\ \E x \in DragXs :
        LET before == dragging_tab[1]
            offset == x - before.start_x
            starts == ~before.is_dragging /\ Abs(offset) > DRAG_THRESHOLD
            is_dragging == before.is_dragging \/ starts
            tab_index == before.tab_index
            active == IF starts THEN tab_index ELSE active_tab
            \* TAB_WIDTH * 0.6
            far == (TAB_WIDTH * 6) \div 10 IN
        IF is_dragging /\ offset > far /\ tab_index < Len(tabs) - 1
        THEN /\ tabs' = Swap(tabs, tab_index, tab_index + 1)
             /\ dragging_tab' = <<DragState(tab_index + 1, x, x, 0, TRUE)>>
             /\ active_tab' = IF active = tab_index THEN tab_index + 1
                              ELSE IF active = tab_index + 1 THEN tab_index ELSE active
             /\ UNCHANGED window
        ELSE IF is_dragging /\ offset < -far /\ tab_index > 0
        THEN IF tab_index >= Len(tabs)
             THEN \* Vec::swap panics on an index past the end
                  /\ window' = "panic"
                  /\ active_tab' = active
                  /\ dragging_tab' = <<DragState(tab_index, before.start_x, x, offset, TRUE)>>
                  /\ UNCHANGED tabs
             ELSE /\ tabs' = Swap(tabs, tab_index, tab_index - 1)
                  /\ dragging_tab' = <<DragState(tab_index - 1, x, x, 0, TRUE)>>
                  /\ active_tab' = IF active = tab_index THEN tab_index - 1
                                   ELSE IF active = tab_index - 1 THEN tab_index ELSE active
                  /\ UNCHANGED window
        ELSE /\ dragging_tab' = <<DragState(tab_index, before.start_x, x, offset, is_dragging)>>
             /\ active_tab' = active
             /\ UNCHANGED <<tabs, window>>
    /\ UNCHANGED <<bother, next_tab_id, url_input, loads>>

\* Message::TabDragEnd
TabDragEnd ==
    /\ window = "open"
    /\ IF dragging_tab # <<>> /\ ~dragging_tab[1].is_dragging
       THEN /\ active_tab' = dragging_tab[1].tab_index
            /\ url_input' = IF active_tab' < Len(tabs)
                            THEN ShownUrl(tabs[active_tab' + 1]) ELSE url_input
       ELSE UNCHANGED <<active_tab, url_input>>
    /\ dragging_tab' = <<>>
    /\ UNCHANGED <<bother, tabs, next_tab_id, loads, window>>

\* Message::TabDragCancel
TabDragCancel ==
    /\ window = "open"
    /\ dragging_tab' = <<>>
    /\ UNCHANGED <<bother, tabs, active_tab, next_tab_id, url_input, loads, window>>

\* page loads from the address bar
LoadNext == UrlInputChanged \/ Navigate \/ Refresh \/ Fetch \/ ParseAndRender \/ PageLoaded

SpecLoad == BrowserInit /\ [][LoadNext]_vars

\* navigation through the history of a tab
BrowserNext == LoadNext \/ GoBack \/ GoForward \/ OpenShortcut

SpecBrowser == BrowserInit /\ [][BrowserNext]_vars

\* the tab bar
TabsNext ==
    \/ NewTab \/ CloseTab \/ SelectTab
    \/ TabDragStart \/ TabDragMove \/ TabDragEnd \/ TabDragCancel

SpecTabs == BrowserInit /\ [][TabsNext]_vars

-----------------------------------------------------------------------------
(* ---- claims about page loads and tabs *)

\* the fetch of a load came back with a transport error or a status outside 200..299
FetchFailed(load) == load.requests >= 1 /\ ~(load.status >= 200 /\ load.status <= 299)

TabOf(load) == tabs[CHOOSE i \in TabPos(load.tab_id) : TRUE]

\* C24: a load whose fetch fails completes with the failure: it is not parsed or
\* rendered, it has sent exactly one request, its result is the error, handling its
\* PageLoaded message puts the tab into Error with that message, and nothing is
\* done for the load after that
C24_FetchFailure ==
    [][\A k \in DOMAIN loads :
        FetchFailed(loads'[k]) =>
            /\ ~loads'[k].parsed
            /\ loads'[k].requests = 1
            /\ loads'[k].stage \in {"ready", "handled"}
            /\ ~loads'[k].result.ok
            /\ (loads[k].stage = "ready" /\ loads'[k].stage = "handled"
                    /\ TabPos(loads[k].tab_id) # {})
                => (TabOf(loads[k]).loading_state = Error(loads[k].result.error))'
            /\ loads[k].stage = "handled" => loads'[k] = loads[k]]_vars

\* a failed load has been handled and its tab shows the error
C24_Witness ==
    \E k \in DOMAIN loads :
        /\ FetchFailed(loads[k]) /\ loads[k].stage = "handled"
        /\ loads[k].result.error.kind = "HTTP Error"
        /\ TabPos(loads[k].tab_id) # {}
        /\ TabOf(loads[k]).loading_state = Error(loads[k].result.error)

\* the loads issued for a tab, and the one issued last
LoadsOf(id) == {k \in DOMAIN loads : loads[k].tab_id = id}
LastLoadOf(id) == loads[CHOOSE k \in LoadsOf(id) : \A j \in LoadsOf(id) : j <= k]

\* what a tab shows once the result of a load has been taken over
Shows(tab, load) ==
    IF load.result.ok
    THEN /\ tab.content = Some(load.result.content)
         /\ tab.loading_state = Loaded
         /\ tab.title = IF load.result.content.document_title = ""
                        THEN StripScheme(tab.url) ELSE load.result.content.document_title
    ELSE tab.loading_state = Error(load.result.error)

\* C26: once every PageLoaded message has been handled, each tab shows the result
\* of the load requested last for it, whatever the order the messages arrived in
C26_NoStaleResult ==
    (\A k \in DOMAIN loads : loads[k].stage = "handled") =>
        \A i \in DOMAIN tabs : LoadsOf(tabs[i].id) # {} => Shows(tabs[i], LastLoadOf(tabs[i].id))

\* C27: the tab list is non-empty, active_tab is a valid index into it, and no
\* handler has swapped or indexed the tab list outside its bounds
C27_ActiveTabValid == tabs # <<>> /\ active_tab < Len(tabs) /\ window # "panic"

\* C28: in every tab history_index is a valid index of the non-empty history and
\* the URL of the tab is the history entry at that index
C28_HistoryUrl ==
    \A i \in DOMAIN tabs :
        /\ tabs[i].history # <<>>
        /\ tabs[i].history_index < Len(tabs[i].history)
        /\ tabs[i].url = tabs[i].history[tabs[i].history_index + 1]

-----------------------------------------------------------------------------
(* ---- claims about html::parse *)

\* C25: when html::parse returns, the root is the single top-level node if the top
\* level yielded exactly one node; otherwise it is an element named html with no
\* attributes whose children are exactly the top-level nodes in source order
C25_RootSelection ==
    hpc = "done" =>
        IF Len(open[1].nodes) = 1
        THEN dom = open[1].nodes[1]
        ELSE /\ dom.kind = "Element" /\ dom.tag_name = <<"html">> /\ dom.attributes = {}
             /\ dom.children = open[1].nodes

\* a text and an element at the top level come back under the synthesized root
C25_Witness ==
    /\ hpc = "done" /\ Len(open[1].nodes) = 2
    /\ open[1].nodes[1].kind = "Text" /\ open[1].nodes[2].kind = "Element"
    /\ dom.tag_name = <<"html">> /\ dom.children = open[1].nodes

\* C30: html::parse halts on every input, by returning or by aborting, and every
\* iteration of the loops of parse_nodes and parse_attributes that does not abort
\* or leave the loop moves the cursor forward
C30_Termination ==
    /\ <>(hpc \in {"done", "panic"})
    /\ [][(hpc \in {"nodes", "attrs"} /\ hpc' \notin {"ret", "panic"}) => pos' > pos]_vars

\* the parser has returned after iterations of both loops
C30_Witness ==
    /\ hpc = "done" /\ pos = Len(input)
    /\ \E i \in DOMAIN source : Lexemes[source[i]].kind = "text"
    /\ \E i \in DOMAIN source : Len(Lexemes[source[i]].chars) > 4

-----------------------------------------------------------------------------
(* ---- one rule with a selector list applied to one element *)

\* the selector lists of the rule
RuleSelectors == <<
    <<"div", ",", " ", ".", "x">>,
    <<"div">>,
    <<".", "x">>,
    <<"*", ",", " ", "div">>,
    <<"p", ",", " ", ".", "x", ",", " ", "div">> >>

\* the declaration blocks of the rule
RuleBodies == <<
    <<"opacity", ":", " ", "0.5">>,
    <<"color", ":", " ", "red">>,
    <<"opacity", ":", " ", "0.5", ";", " ", "font-size", ":", " ", "2", "em">> >>

RuleText(i, j) == RuleSelectors[i] \o <<" ", "{", " ">> \o RuleBodies[j] \o <<" ", "}">>

\* the elements the rule is applied to
RuleTags == {"div", "p"}
RuleClasses == {<<>>, <<"x">>, <<"x", " ", "y">>}

RuleInit ==
    /\ default_stylesheet \in OrderedSheets(parse(DefaultCss))
    /\ \E i \in DOMAIN RuleSelectors, j \in DOMAIN RuleBodies :
        \E sheet \in OrderedSheets(parse(RuleText(i, j))) : page_stylesheets = <<sheet>>
    /\ \E tag \in RuleTags, class \in RuleClasses :
        document = SelectorElement(tag, <<>>, class)
    /\ rendered = <<>>
    /\ previous = <<>>
    /\ HtmlIdle /\ CssIdle /\ LayoutIdle /\ SelectorIdle /\ PipelineIdle /\ FlattenIdle /\ BrowserIdle

RuleNext == Render

SpecRule == RuleInit /\ [][RuleNext]_vars

\* the rule of the page style sheet and the selectors of it that match the document
TheRule == page_stylesheets[1][1]
MatchingSelectors ==
    {k \in DOMAIN TheRule.selectors :
        selector_matches(TheRule.selectors[k], document.tag_name, attr(document, "id"),
                         ElementClasses(document))}

\* the declarations of the rule applied once to the styles the element has before
\* the page style sheets
AppliedOnce ==
    apply_in_order(TheRule.declarations, TheRule.order,
                   StylesBeforePage(document, DefaultStyles), DefaultStyles.font_size)

\* C29: the computed style of an element a rule matches is the one its declarations
\* give when applied once, whether one or several selectors of the rule match
C29_OncePerElement ==
    (rendered # <<>> /\ MatchingSelectors # {}) => rendered.styles = AppliedOnce

=============================================================================
